---- MODULE Spec2Model ----
(***************************************************************************)
(* Model of the Digital Twin service:                                      *)
(*   backend/digital_twin_service/analytics.py  compute_compliance         *)
(*   backend/digital_twin_service/main.py       the HTTP endpoints         *)
(*   backend/digital_twin_service/database.py   the tables they read       *)
(*   backend/digital_twin_service/cache.py      the Redis cache manager    *)
(*   the Anomaly Detector of the specification                             *)
(*   core/models.py, core/migrations/0002_seed_data.py   the core tables   *)
(*   backend/core/management/commands/mqtt_consumer.py   the MQTT consumer *)
(*   scripts/simulate_route.py                  the route simulator        *)
(*                                                                         *)
(* One call of compute_compliance is a small state machine: the entry      *)
(* (empty check, reading the SLA, initialising the locals), one step per   *)
(* iteration of the for loop, and the final percentage and return.         *)
(*                                                                         *)
(* Numbers: a telemetry value or a band bound is an integer (the code only *)
(* compares them, so only their order matters).  in_range_pct is kept in   *)
(* hundredths: 6667 stands for 66.67 and 10000 for 100.0.                  *)
(***************************************************************************)
EXTENDS Integers, Sequences, FiniteSets, TLC

\* Longest telemetry series of Spec.
MaxPoints == 2
\* Largest num_points of SpecRound (the percentage computation alone).
MaxCount == 160
\* Longest series given to the Anomaly Detector.
MaxDetPoints == 4

VARIABLES
    telemetry_points,   \* argument: the sequence of points
    sla,                \* argument: the SLA record
    pc,                 \* "call" | "loop" | "done" | "raised"
    temp_min, temp_max, humidity_min, humidity_max,   \* locals, lines 38-41
    num_points,         \* local, line 43
    points_in_range,    \* local, line 44
    excursions,         \* local, line 45
    idx,                \* position of the for loop of line 47 (1-based)
    result,             \* the returned dict, meaningful when pc = "done"
    error               \* the exception that escaped, when pc = "raised"

\* Two calls running together (see SpecParallel).
VARIABLES
    heap,               \* the list and dict objects the callers pass
    frames              \* the frame of each running call: its locals

\* The Anomaly Detector (see SpecDetect).
VARIABLES
    det_args,           \* what DetectionConfig(...) is called with
    config,             \* the DetectionConfig, once constructed
    det_points,         \* detect: the points
    det_metrics,        \* detect: the metrics asked for
    det_pc,             \* "new" | "ready" | "rejected" | "metrics" | "done" | "raised"
    det_todo,           \* metrics still to be processed
    det_found,          \* results so far, metric by metric
    anomalies,          \* the returned sequence of AnomalyResult
    det_error           \* the error raised, if any

\* The HTTP service: GET /analytics/compliance and POST /sla (see
\* SpecCompliance).
VARIABLES
    sla_table,          \* the rows of core_slaconfig, by increasing id
    telemetry_table,    \* the rows of core_telemetryreading, latest first
    request,            \* the query parameters of the request being served
    slas,               \* analytics_compliance: what db.list_sla() returned
    telemetry,          \* analytics_compliance: what db.list_telemetry() returned
    http_pc,            \* "idle" | "computing" | "responded"
    response            \* the last response: status, detail, body

\* The stats cache: GET /stats and DELETE /cache/clear (see SpecCache).
VARIABLES
    connected,          \* CacheManager.connected, set at construction
    redis_up,           \* whether Redis answers a command sent now
    op_result,          \* outcome of the last CacheManager operation called
    redis,              \* the Redis keyspace: key -> entry or NoEntry
    db_counts,          \* rows of core_transportbox, core_sample, active alerts
    stats_reply,        \* the last response of the two endpoints
    stored_age,         \* seconds since a GET /stats last stored its result, -1 if none
    stored_reply,       \* what that GET /stats answered
    cleared_since,      \* DELETE /cache/clear was called since then
    last_clear,         \* "" | "deleted" | "nothing": the request before was a clear
    observed            \* the circumstances of the last request

\* The Django database of the core service, the seed migration and the
\* MQTT consumer (see SpecSeed and SpecConsumer).
VARIABLES
    db,                 \* the tables and their primary-key sequences
    now,                \* the clock that auto_now reads
    seed_log,           \* the applications of the seed migration so far
    delivery,           \* the last MQTT message delivered and what it did
    creation,           \* the last TransportBox.objects.create and its outcome
    journal             \* the writes made so far, in order

VARIABLES
    sim_pc,             \* where main of simulate_route.py is
    sim_connected,      \* RouteSimulator.connected
    connack,            \* the call of _on_connect by the network-loop thread
    built,              \* RouteSimulator.connected as the constructor left it
    route,              \* simulate_route arguments: len(cities), waypoints_per_segment
    progress,           \* simulate_route locals: loop indices and counters
    calls               \* the send_telemetry calls made so far

callVars == <<telemetry_points, sla, pc, temp_min, temp_max, humidity_min,
              humidity_max, num_points, points_in_range, excursions, idx,
              result, error>>
parallelVars == <<heap, frames>>

\* Everything that is not part of the single call of Spec.
detectorVars == <<det_args, config, det_points, det_metrics, det_pc, det_todo,
                  det_found, anomalies, det_error>>
apiVars == <<sla_table, telemetry_table, request, slas, telemetry, http_pc,
             response>>
cacheVars == <<connected, redis_up, op_result, redis, db_counts, stats_reply, stored_age,
               stored_reply, cleared_since, last_clear, observed>>
storeVars == <<db, now, seed_log, delivery, creation, journal>>
simVars == <<sim_pc, sim_connected, connack, built, route, progress, calls>>
otherVars == <<parallelVars, detectorVars, apiVars, cacheVars, storeVars, simVars>>
\* What the steps of each component leave alone.
notParallelVars == <<callVars, detectorVars, apiVars, cacheVars, storeVars, simVars>>
notDetectorVars == <<callVars, parallelVars, apiVars, cacheVars, storeVars, simVars>>
notApiVars == <<parallelVars, detectorVars, cacheVars, storeVars, simVars>>
notCacheVars == <<callVars, parallelVars, detectorVars, apiVars, storeVars, simVars>>
notStoreVars == <<callVars, parallelVars, detectorVars, apiVars, cacheVars, simVars>>
notSimVars == <<callVars, parallelVars, detectorVars, apiVars, cacheVars, storeVars>>

vars == <<callVars, otherVars>>

\* The parts of the state a specification does not use stay as they are here.
ParallelIdle == heap = <<>> /\ frames = <<>>
NoConfig == [algorithm |-> "", window_size |-> 0, threshold |-> 0]
DetectorIdle ==
    /\ det_args = NoConfig
    /\ config = NoConfig
    /\ det_points = <<>>
    /\ det_metrics = {}
    /\ det_pc = "idle"
    /\ det_todo = <<>>
    /\ det_found = <<>>
    /\ anomalies = <<>>
    /\ det_error = ""

\* The value of result, and of a response body, before anything is returned.
NoResult == [num_points |-> 0, in_range_pct |-> 0, excursions |-> <<>>]
NoRequest == [path |-> "", sla_name |-> <<>>, since |-> <<>>]
NoResponse == [status |-> 0, detail |-> "", body |-> NoResult]
ApiIdle ==
    /\ sla_table = <<>>
    /\ telemetry_table = <<>>
    /\ request = NoRequest
    /\ slas = <<>>
    /\ telemetry = <<>>
    /\ http_pc = "idle"
    /\ response = NoResponse
NoCounts == [num_boxes |-> 0, num_samples |-> 0, num_active_alerts |-> 0]
NoEntry == [present |-> FALSE, value |-> NoCounts, from_cache |-> FALSE,
            ttl |-> 0, by |-> ""]
NoReply == [path |-> "", counts |-> NoCounts, from_cache |-> FALSE,
            deleted |-> FALSE, raised |-> FALSE]
NoOp == [op |-> "", value |-> NoEntry, ok |-> FALSE, count |-> 0,
         status |-> "", raised |-> FALSE, called |-> FALSE,
         was_connected |-> FALSE, was_up |-> FALSE]
NothingObserved ==
    [age_before |-> -1, cleared_before |-> FALSE, reply_before |-> NoReply,
     after_clear |-> "", present_before |-> FALSE, db_before |-> NoCounts,
     queried_db |-> FALSE, up_before |-> FALSE]
CacheIdle ==
    /\ connected = FALSE
    /\ redis_up = FALSE
    /\ op_result = NoOp
    /\ redis = <<>>
    /\ db_counts = NoCounts
    /\ stats_reply = NoReply
    /\ stored_age = -1
    /\ stored_reply = NoReply
    /\ cleared_since = FALSE
    /\ last_clear = ""
    /\ observed = NothingObserved
EmptyDb == [boxes |-> {}, samples |-> {}, readings |-> {},
            box_seq |-> 0, sample_seq |-> 0, reading_seq |-> 0]
NoSeed == [applied |-> 0, before |-> EmptyDb, first |-> EmptyDb, at |-> 0,
           unseeded |-> FALSE]
NoMessage == [topic |-> <<>>, kind |-> "", body |-> <<>>]
NoDelivery == [msg |-> NoMessage, before |-> EmptyDb, handlers |-> <<>>,
               raised |-> FALSE]
NoCreation == [box_id |-> "", before |-> EmptyDb, error |-> ""]

StoreIdle ==
    /\ db = EmptyDb
    /\ now = 0
    /\ seed_log = NoSeed
    /\ delivery = NoDelivery
    /\ creation = NoCreation
    /\ journal = <<>>
NoConnack == [called |-> FALSE, rc |-> 0, during |-> ""]
NoRoute == [n |-> 0, w |-> 0]
NoProgress == [segment_idx |-> 0, wp_idx |-> 0, waypoint_count |-> 0,
               total_waypoints |-> 0]
SimIdle ==
    /\ sim_pc = "idle"
    /\ sim_connected = FALSE
    /\ connack = NoConnack
    /\ built = "unbuilt"
    /\ route = NoRoute
    /\ progress = NoProgress
    /\ calls = <<>>

OtherIdle == ParallelIdle /\ DetectorIdle /\ ApiIdle /\ CacheIdle /\ StoreIdle /\ SimIdle

(***************************************************************************)
(* Python values of a metric field.                                        *)
(***************************************************************************)
\* None: the key is missing or holds None; point.get(key) gives None for both.
None == [type |-> "NoneType"]
\* A number.
Num(n) == [type |-> "float", v |-> n]
\* A value that is not a number (a str such as "n/a").
Str == [type |-> "str"]

IsNumber(x) == x.type = "float"

\* point.get(key)
Get(point, key) == point[key]

\* Values the inputs are drawn from: below, on and above the band bounds.
TempValues == {0, 1, 2}
HumValues == {0, 1}
TempInputs == {None, Str} \cup {Num(n) : n \in TempValues}
HumInputs == {None, Str} \cup {Num(n) : n \in HumValues}

\* Every SLA over those values, min > max included.
Bands ==
    [temp_min : TempValues, temp_max : TempValues,
     humidity_min : HumValues, humidity_max : HumValues]

\* Timestamps of a series: chronological or reversed (list_telemetry returns
\* its rows ORDER BY timestamp DESC).
Orders == {"asc", "desc"}
Stamp(o, i, n) == IF o = "asc" THEN i ELSE n + 1 - i

SeriesOfLen(n) ==
    {[i \in 1..n |-> [timestamp |-> Stamp(o, i, n),
                      temperature |-> t[i],
                      humidity |-> h[i]]] :
        o \in (IF n < 2 THEN {"asc"} ELSE Orders),
        t \in [1..n -> TempInputs],
        h \in [1..n -> HumInputs]}

InputSeries == UNION {SeriesOfLen(n) : n \in 0..MaxPoints}

(***************************************************************************)
(* The pieces of the loop body.                                            *)
(***************************************************************************)
\* lo <= x <= hi raises TypeError when x is neither None nor a number.
CompareRaises(x) == x # None /\ ~IsNumber(x)

\* line 51: (temperature is None) or (temp_min <= temperature <= temp_max)
temperature_ok_strict(temperature, lo, hi) ==
    temperature = None \/ (lo < temperature.v /\ temperature.v < hi)
temperature_ok_nonone(temperature, lo, hi) ==
    temperature # None /\ (lo <= temperature.v /\ temperature.v <= hi)
temperature_ok(temperature, lo, hi) ==
    temperature = None \/ (lo <= temperature.v /\ temperature.v <= hi)

\* line 52: (humidity is None) or (humidity_min <= humidity <= humidity_max)
humidity_ok_always(humidity, lo, hi) == TRUE
humidity_ok(humidity, lo, hi) ==
    humidity = None \/ (lo <= humidity.v /\ humidity.v <= hi)

\* lines 54-55: the counter after the point.
CountPoint_twice(count, t_ok, h_ok) ==
    IF t_ok /\ h_ok THEN count + 2 ELSE count
CountPoint(count, t_ok, h_ok) ==
    IF t_ok /\ h_ok THEN count + 1 ELSE count

Excursion(point, metric, value, lo, hi) ==
    [timestamp |-> Get(point, "timestamp"),
     metric |-> metric,
     value |-> value.v,
     band |-> <<lo, hi>>]

\* lines 56-70: the excursions the point appends (nothing when both are ok).
PointExcursions_elif(point, t_ok, h_ok, tlo, thi, hlo, hhi) ==
    IF Get(point, "temperature") # None /\ ~t_ok
    THEN <<Excursion(point, "temperature", Get(point, "temperature"), tlo, thi)>>
    ELSE IF Get(point, "humidity") # None /\ ~h_ok
         THEN <<Excursion(point, "humidity", Get(point, "humidity"), hlo, hhi)>>
         ELSE <<>>
PointExcursions_swapped(point, t_ok, h_ok, tlo, thi, hlo, hhi) ==
    IF t_ok /\ h_ok
    THEN <<>>
    ELSE (IF Get(point, "humidity") # None /\ ~h_ok
          THEN <<Excursion(point, "humidity", Get(point, "humidity"), hlo, hhi)>>
          ELSE <<>>)
         \o
         (IF Get(point, "temperature") # None /\ ~t_ok
          THEN <<Excursion(point, "temperature", Get(point, "temperature"), tlo, thi)>>
          ELSE <<>>)
PointExcursions(point, t_ok, h_ok, tlo, thi, hlo, hhi) ==
    IF t_ok /\ h_ok
    THEN <<>>
    ELSE (IF Get(point, "temperature") # None /\ ~t_ok
          THEN <<Excursion(point, "temperature", Get(point, "temperature"), tlo, thi)>>
          ELSE <<>>)
         \o
         (IF Get(point, "humidity") # None /\ ~h_ok
          THEN <<Excursion(point, "humidity", Get(point, "humidity"), hlo, hhi)>>
          ELSE <<>>)

(***************************************************************************)
(* lines 72 and 76: round((points_in_range / num_points) * 100.0, 2), in   *)
(* hundredths.  The quotient and the product are IEEE doubles, each within *)
(* half an ulp of the real value, and round(x, 2) gives the hundredth      *)
(* nearest to the double x, an exact half going to the even hundredth.     *)
(* When 100*k/n is not halfway between two hundredths the double is far    *)
(* nearer to it than to the halfway point and the result is the nearest    *)
(* hundredth.  When it is exactly halfway: if k/n is a binary fraction the *)
(* double is exact and the half goes to even; otherwise the double lies    *)
(* on, just below or just above the half, and the result is either         *)
(* neighbour.                                                              *)
(***************************************************************************)
RECURSIVE GCD(_, _)
GCD(a, b) == IF b = 0 THEN a ELSE GCD(b, a % b)

RECURSIVE IsPow2(_)
IsPow2(m) == m = 1 \/ (m > 1 /\ m % 2 = 0 /\ IsPow2(m \div 2))

\* k/n is represented exactly by a double (for the small k, n of the model).
ExactQuotient(k, n) == k = 0 \/ IsPow2(n \div GCD(k, n))

RoundOutcomes_floor(k, n) == {(10000 * k) \div n}
RoundOutcomes(k, n) ==
    LET x  == 10000 * k
        lo == x \div n
        r  == x % n
    IN  IF 2 * r < n THEN {lo}
        ELSE IF 2 * r > n THEN {lo + 1}
        ELSE IF ExactQuotient(k, n)
             THEN {IF lo % 2 = 0 THEN lo ELSE lo + 1}
             ELSE {lo, lo + 1}

\* lines 31-35: the result for an empty series (in_range_pct 100.0).
EmptyResult_zero == [num_points |-> 0, in_range_pct |-> 0, excursions |-> <<>>]
EmptyResult == [num_points |-> 0, in_range_pct |-> 10000, excursions |-> <<>>]

(***************************************************************************)
(* The call.                                                               *)
(***************************************************************************)
TypeOK ==
    /\ pc \in {"call", "loop", "done", "raised"}
    /\ idx \in 0..(Len(telemetry_points) + 1)
    /\ points_in_range \in Nat
    /\ error \in {"", "TypeError"}

Init ==
    /\ telemetry_points \in InputSeries
    /\ sla \in Bands
    /\ pc = "call"
    /\ temp_min = 0 /\ temp_max = 0 /\ humidity_min = 0 /\ humidity_max = 0
    /\ num_points = 0
    /\ points_in_range = 0
    /\ excursions = <<>>
    /\ idx = 0
    /\ result = NoResult
    /\ error = ""
    /\ OtherIdle

\* lines 30-35: an empty series returns at once; the SLA is not read.
ReturnEmpty ==
    /\ pc = "call"
    /\ telemetry_points = <<>>
    /\ result' = EmptyResult
    /\ pc' = "done"
    /\ UNCHANGED <<telemetry_points, sla, temp_min, temp_max, humidity_min,
                   humidity_max, num_points, points_in_range, excursions,
                   idx, error>>
    /\ UNCHANGED otherVars

\* lines 38-45: read the four bounds, initialise the locals, enter the loop.
Setup_stale ==
    /\ pc = "call"
    /\ telemetry_points # <<>>
    /\ temp_min' = sla.temp_min
    /\ temp_max' = sla.temp_max
    /\ humidity_min' = sla.humidity_min
    /\ humidity_max' = sla.humidity_max
    /\ num_points' = Len(telemetry_points)
    /\ points_in_range' = 0
    /\ idx' = 1
    /\ pc' = "loop"
    /\ UNCHANGED <<telemetry_points, sla, result, error, excursions>>
    /\ UNCHANGED otherVars
Setup ==
    /\ pc = "call"
    /\ telemetry_points # <<>>
    /\ temp_min' = sla.temp_min
    /\ temp_max' = sla.temp_max
    /\ humidity_min' = sla.humidity_min
    /\ humidity_max' = sla.humidity_max
    /\ num_points' = Len(telemetry_points)
    /\ points_in_range' = 0
    /\ excursions' = <<>>
    /\ idx' = 1
    /\ pc' = "loop"
    /\ UNCHANGED <<telemetry_points, sla, result, error>>
    /\ UNCHANGED otherVars

\* lines 47-70: one iteration over a point whose comparisons succeed.
Iterate ==
    /\ pc = "loop"
    /\ idx <= Len(telemetry_points)
    /\ LET point == telemetry_points[idx]
           temperature == Get(point, "temperature")
           humidity == Get(point, "humidity")
       IN  /\ ~CompareRaises(temperature)
           /\ ~CompareRaises(humidity)
           /\ LET t_ok == temperature_ok(temperature, temp_min, temp_max)
                  h_ok == humidity_ok(humidity, humidity_min, humidity_max)
              IN  /\ points_in_range' = CountPoint(points_in_range, t_ok, h_ok)
                  /\ excursions' = excursions \o
                        PointExcursions(point, t_ok, h_ok, temp_min, temp_max,
                                        humidity_min, humidity_max)
    /\ idx' = idx + 1
    /\ UNCHANGED <<telemetry_points, sla, pc, temp_min, temp_max, humidity_min,
                   humidity_max, num_points, result, error>>
    /\ UNCHANGED otherVars

\* lines 51-52: a comparison with a non-number raises TypeError; nothing in
\* compute_compliance catches it, so it leaves the call.
IterateRaises ==
    /\ pc = "loop"
    /\ idx <= Len(telemetry_points)
    /\ LET point == telemetry_points[idx]
       IN  \/ CompareRaises(Get(point, "temperature"))
           \/ CompareRaises(Get(point, "humidity"))
    /\ error' = "TypeError"
    /\ pc' = "raised"
    /\ UNCHANGED <<telemetry_points, sla, temp_min, temp_max, humidity_min,
                   humidity_max, num_points, points_in_range, excursions,
                   idx, result>>
    /\ UNCHANGED otherVars

\* lines 72-78: the loop is over; compute the percentage and return.
Return ==
    /\ pc = "loop"
    /\ idx > Len(telemetry_points)
    /\ \E pct \in RoundOutcomes(points_in_range, num_points) :
          result' = [num_points |-> num_points,
                     in_range_pct |-> pct,
                     excursions |-> excursions]
    /\ pc' = "done"
    /\ UNCHANGED <<telemetry_points, sla, temp_min, temp_max, humidity_min,
                   humidity_max, num_points, points_in_range, excursions,
                   idx, error>>
    /\ UNCHANGED otherVars

Next == ReturnEmpty \/ Setup \/ Iterate \/ IterateRaises \/ Return

Spec == Init /\ [][Next]_vars
(***************************************************************************)
(* The percentage computation alone (lines 72-78), over every pair of      *)
(* counts: the state at the end of the loop over a series of n points of   *)
(* which the first k are inside the band and the others are temperature    *)
(* excursions.                                                             *)
(***************************************************************************)
RoundSla == [temp_min |-> 0, temp_max |-> 1, humidity_min |-> 0, humidity_max |-> 1]

RoundSeries(k, n) ==
    [i \in 1..n |-> [timestamp |-> i,
                     temperature |-> IF i <= k THEN Num(1) ELSE Num(2),
                     humidity |-> None]]

InitRound ==
    \E n \in 1..MaxCount : \E k \in 0..n :
        /\ telemetry_points = RoundSeries(k, n)
        /\ sla = RoundSla
        /\ pc = "loop"
        /\ temp_min = 0 /\ temp_max = 1 /\ humidity_min = 0 /\ humidity_max = 1
        /\ num_points = n
        /\ points_in_range = k
        /\ excursions = [j \in 1..(n - k) |->
                            Excursion(RoundSeries(k, n)[k + j], "temperature",
                                      Num(2), 0, 1)]
        /\ idx = n + 1
        /\ result = NoResult
        /\ error = ""
        /\ OtherIdle

NextRound == Return

SpecRound == InitRound /\ [][NextRound]_vars

(***************************************************************************)
(* One call after another.  compute_compliance has no module-level state,  *)
(* no default argument and no closure: all it keeps is the locals of its   *)
(* frame.  A new call gets a new frame whose locals are unbound; here they *)
(* keep whatever the previous call left, so that a result which read a     *)
(* local before assigning it would show.                                   *)
(***************************************************************************)
CallTemps == {Str, Num(1), Num(2)}
CallHums == {None, Num(1)}
CallBands ==
    {[temp_min |-> 0, temp_max |-> 1, humidity_min |-> 0, humidity_max |-> 1],
     [temp_min |-> 2, temp_max |-> 2, humidity_min |-> 0, humidity_max |-> 0]}

CallSeries ==
    UNION {{[i \in 1..n |-> [timestamp |-> i,
                             temperature |-> t[i],
                             humidity |-> h[i]]] :
               t \in [1..n -> CallTemps], h \in [1..n -> CallHums]} :
           n \in 0..MaxPoints}

InitCalls ==
    /\ telemetry_points \in CallSeries
    /\ sla \in CallBands
    /\ pc = "call"
    /\ temp_min = 0 /\ temp_max = 0 /\ humidity_min = 0 /\ humidity_max = 0
    /\ num_points = 0
    /\ points_in_range = 0
    /\ excursions = <<>>
    /\ idx = 0
    /\ result = NoResult
    /\ error = ""
    /\ OtherIdle

\* The caller calls again, with any arguments, once the previous call is over.
CallAgain ==
    /\ pc \in {"done", "raised"}
    /\ telemetry_points' \in CallSeries
    /\ sla' \in CallBands
    /\ pc' = "call"
    /\ result' = NoResult
    /\ error' = ""
    /\ UNCHANGED <<temp_min, temp_max, humidity_min, humidity_max, num_points,
                   points_in_range, excursions, idx>>
    /\ UNCHANGED otherVars

NextCalls ==
    ReturnEmpty \/ Setup \/ Iterate \/ IterateRaises \/ Return \/ CallAgain

SpecCalls == InitCalls /\ [][NextCalls]_vars

(***************************************************************************)
(* Two calls of compute_compliance whose steps interleave (two workers).   *)
(* The callers' objects live in the heap: two lists of points and two SLA  *)
(* dicts.  Call 1 is given list 1 and dict 1; call 2 is given the same     *)
(* objects or the other ones.  Each call has its own frame of locals       *)
(* (lines 38-45); the steps are those of the single call above, taken on   *)
(* the frame of the call that moves.                                       *)
(***************************************************************************)
CallIds == {1, 2}
ObjIds == {1, 2}

ParTemps == {Str, Num(1), Num(2)}
ParSeries ==
    UNION {{[i \in 1..n |-> [timestamp |-> i,
                             temperature |-> t[i],
                             humidity |-> Num(1)]] :
               t \in [1..n -> ParTemps]} :
           n \in 0..MaxPoints}

NewFrame(points_ref, sla_ref) ==
    [points_ref |-> points_ref, sla_ref |-> sla_ref, pc |-> "call",
     temp_min |-> 0, temp_max |-> 0, humidity_min |-> 0, humidity_max |-> 0,
     num_points |-> 0, points_in_range |-> 0, excursions |-> <<>>,
     idx |-> 0, result |-> NoResult, error |-> ""]

\* The arguments of call c.
PointsOf(c) == heap.points[frames[c].points_ref]
SlaOf(c) == heap.sla[frames[c].sla_ref]

CallIdle ==
    /\ telemetry_points = <<>>
    /\ sla = RoundSla
    /\ pc = "idle"
    /\ temp_min = 0 /\ temp_max = 0 /\ humidity_min = 0 /\ humidity_max = 0
    /\ num_points = 0
    /\ points_in_range = 0
    /\ excursions = <<>>
    /\ idx = 0
    /\ result = NoResult
    /\ error = ""

InitParallel ==
    /\ CallIdle
    /\ DetectorIdle
    /\ ApiIdle
    /\ CacheIdle
    /\ StoreIdle
    /\ SimIdle
    /\ heap \in [points : [ObjIds -> ParSeries], sla : [ObjIds -> CallBands]]
    /\ \E pr \in ObjIds, sr \in ObjIds :
          frames = [c \in CallIds |->
                       IF c = 1 THEN NewFrame(1, 1) ELSE NewFrame(pr, sr)]

\* lines 30-35
FrameReturnEmpty(c) ==
    /\ frames[c].pc = "call"
    /\ PointsOf(c) = <<>>
    /\ frames' = [frames EXCEPT ![c].result = EmptyResult, ![c].pc = "done"]
    /\ UNCHANGED <<heap, notParallelVars>>

\* lines 38-45
FrameSetup(c) ==
    /\ frames[c].pc = "call"
    /\ PointsOf(c) # <<>>
    /\ frames' = [frames EXCEPT
                     ![c].temp_min = SlaOf(c).temp_min,
                     ![c].temp_max = SlaOf(c).temp_max,
                     ![c].humidity_min = SlaOf(c).humidity_min,
                     ![c].humidity_max = SlaOf(c).humidity_max,
                     ![c].num_points = Len(PointsOf(c)),
                     ![c].points_in_range = 0,
                     ![c].excursions = <<>>,
                     ![c].idx = 1,
                     ![c].pc = "loop"]
    /\ UNCHANGED <<heap, notParallelVars>>

\* lines 47-70, with points_in_range a module-level counter instead of a local.
FrameIterate_global(c) ==
    /\ frames[c].pc = "loop"
    /\ frames[c].idx <= Len(PointsOf(c))
    /\ LET f == frames[c]
           point == PointsOf(c)[f.idx]
           temperature == Get(point, "temperature")
           humidity == Get(point, "humidity")
       IN  /\ ~CompareRaises(temperature)
           /\ ~CompareRaises(humidity)
           /\ LET t_ok == temperature_ok(temperature, f.temp_min, f.temp_max)
                  h_ok == humidity_ok(humidity, f.humidity_min, f.humidity_max)
                  count == CountPoint(f.points_in_range, t_ok, h_ok)
              IN  frames' =
                    [d \in CallIds |->
                        IF d = c
                        THEN [f EXCEPT
                                 !.points_in_range = count,
                                 !.excursions = f.excursions \o
                                     PointExcursions(point, t_ok, h_ok,
                                         f.temp_min, f.temp_max,
                                         f.humidity_min, f.humidity_max),
                                 !.idx = f.idx + 1]
                        ELSE [frames[d] EXCEPT !.points_in_range = count]]
    /\ UNCHANGED <<heap, notParallelVars>>
\* lines 47-70
FrameIterate(c) ==
    /\ frames[c].pc = "loop"
    /\ frames[c].idx <= Len(PointsOf(c))
    /\ LET f == frames[c]
           point == PointsOf(c)[f.idx]
           temperature == Get(point, "temperature")
           humidity == Get(point, "humidity")
       IN  /\ ~CompareRaises(temperature)
           /\ ~CompareRaises(humidity)
           /\ LET t_ok == temperature_ok(temperature, f.temp_min, f.temp_max)
                  h_ok == humidity_ok(humidity, f.humidity_min, f.humidity_max)
              IN  frames' =
                    [frames EXCEPT
                        ![c].points_in_range =
                            CountPoint(f.points_in_range, t_ok, h_ok),
                        ![c].excursions = f.excursions \o
                            PointExcursions(point, t_ok, h_ok,
                                f.temp_min, f.temp_max,
                                f.humidity_min, f.humidity_max),
                        ![c].idx = f.idx + 1]
    /\ UNCHANGED <<heap, notParallelVars>>

\* lines 51-52: TypeError
FrameIterateRaises(c) ==
    /\ frames[c].pc = "loop"
    /\ frames[c].idx <= Len(PointsOf(c))
    /\ LET point == PointsOf(c)[frames[c].idx]
       IN  \/ CompareRaises(Get(point, "temperature"))
           \/ CompareRaises(Get(point, "humidity"))
    /\ frames' = [frames EXCEPT ![c].error = "TypeError", ![c].pc = "raised"]
    /\ UNCHANGED <<heap, notParallelVars>>

\* lines 72-78
FrameReturn(c) ==
    /\ frames[c].pc = "loop"
    /\ frames[c].idx > Len(PointsOf(c))
    /\ \E pct \in RoundOutcomes(frames[c].points_in_range, frames[c].num_points) :
          frames' = [frames EXCEPT
                        ![c].result = [num_points |-> frames[c].num_points,
                                       in_range_pct |-> pct,
                                       excursions |-> frames[c].excursions],
                        ![c].pc = "done"]
    /\ UNCHANGED <<heap, notParallelVars>>

NextParallel ==
    \E c \in CallIds :
        \/ FrameReturnEmpty(c)
        \/ FrameSetup(c)
        \/ FrameIterate(c)
        \/ FrameIterateRaises(c)
        \/ FrameReturn(c)

SpecParallel == InitParallel /\ [][NextParallel]_vars

(***************************************************************************)
(* The Anomaly Detector (spec sections 3, 4.2 and 7).  Its module,         *)
(* digital_twin_service/anomaly_detector.py, is imported by the tests      *)
(* (tests/unit/test_anomaly_detector_unit.py) but its source is not        *)
(* available: it is modelled here from the specification.                  *)
(*                                                                         *)
(* A threshold is kept in halves (3 stands for 1.5), so that the three     *)
(* tests below are integer comparisons.  The score of a result is a real   *)
(* number in general (a z-value) and is not represented.                   *)
(***************************************************************************)
Algorithms == {"z_score", "iqr", "moving_average"}

\* DetectionConfig validation, at construction.
ValidConfig_anyalgorithm(args) ==
    /\ args.window_size >= 2
    /\ args.threshold > 0
ValidConfig(args) ==
    /\ args.algorithm \in Algorithms
    /\ args.window_size >= 2
    /\ args.threshold > 0

\* A point takes part in a metric's channel if its value is a number.
Usable(point, m) == IsNumber(point[m])

\* Stable sort of a sequence by the integer keys of its elements.
SortByKey(seq, keys) ==
    LET n == Len(seq)
        Rank(i) == Cardinality({j \in 1..n :
                        \/ keys[j] < keys[i]
                        \/ (keys[j] = keys[i] /\ j < i)}) + 1
    IN  [k \in 1..n |-> seq[CHOOSE i \in 1..n : Rank(i) = k]]

\* The channel of a metric: its usable points, in timestamp order.
Channel(points, m) ==
    LET IsUsable(point) == Usable(point, m)
        usable == SelectSeq(points, IsUsable)
    IN  SortByKey(usable, [i \in 1..Len(usable) |-> usable[i].timestamp])

RECURSIVE SumSeq(_)
SumSeq(xs) == IF xs = <<>> THEN 0 ELSE Head(xs) + SumSeq(Tail(xs))

Square(x) == x * x
Abs(x) == IF x < 0 THEN -x ELSE x

\* Z-Score: stddev(W) > 0 and |v - mean(W)| / stddev(W) > threshold, with
\* w = |W|, S = sum(W), Q = sum of squares: w*w*variance = w*Q - S*S.
ZScoreFlags_unguarded(W, v, th) ==
    LET w == Len(W)
        S == SumSeq(W)
        Q == SumSeq([i \in 1..w |-> Square(W[i])])
    IN  4 * Square(w * v - S) > th * th * (w * Q - S * S)
ZScoreFlags(W, v, th) ==
    LET w == Len(W)
        S == SumSeq(W)
        Q == SumSeq([i \in 1..w |-> Square(W[i])])
        wwVar == w * Q - S * S
    IN  /\ wwVar > 0
        /\ 4 * Square(w * v - S) > th * th * wwVar

\* Quartile q (1 or 3) of W by linear interpolation on the sorted values,
\* times 4.
Quartile4(W, q) ==
    LET sorted == SortByKey(W, W)
        pos4 == (Len(W) - 1) * q
        lo == pos4 \div 4
        r == pos4 % 4
    IN  IF r = 0 THEN 4 * sorted[lo + 1]
        ELSE (4 - r) * sorted[lo + 1] + r * sorted[lo + 2]

\* IQR: v outside [Q1 - k*IQR, Q3 + k*IQR], k = th / 2.
IqrFlags(W, v, th) ==
    LET q1 == Quartile4(W, 1)
        q3 == Quartile4(W, 3)
        iqr == q3 - q1
    IN  \/ 8 * v < 2 * q1 - th * iqr
        \/ 8 * v > 2 * q3 + th * iqr

\* Moving Average: |v - mean(W)| > threshold.
MovingAverageFlags(W, v, th) ==
    2 * Abs(Len(W) * v - SumSeq(W)) > th * Len(W)

\* The algorithm the configuration selects.
Flags(cfg, W, v) ==
    IF cfg.algorithm = "z_score" THEN ZScoreFlags(W, v, cfg.threshold)
    ELSE IF cfg.algorithm = "iqr" THEN IqrFlags(W, v, cfg.threshold)
    ELSE MovingAverageFlags(W, v, cfg.threshold)

\* The values of the (at most) window_size readings before position j of
\* the channel of metric m.
WindowAt(channel, m, j, w) ==
    LET len == IF j - 1 < w THEN j - 1 ELSE w
    IN  [i \in 1..len |-> channel[j - len - 1 + i][m].v]

\* Position j of a channel is judged once window_size readings precede it.
Eligible_early(j, w) == j > 1
Eligible(j, w) == j > w

AnomalyResult(point, m, cfg) ==
    [timestamp |-> point.timestamp, metric |-> m, value |-> point[m].v,
     algorithm |-> cfg.algorithm]

\* The anomalies of one metric, in the order of its channel.
MetricAnomalies(points, m, cfg) ==
    LET channel == Channel(points, m)
        positions == [j \in 1..Len(channel) |-> j]
        IsFlagged(j) ==
            /\ Eligible(j, cfg.window_size)
            /\ Flags(cfg, WindowAt(channel, m, j, cfg.window_size),
                     channel[j][m].v)
        flagged == SelectSeq(positions, IsFlagged)
    IN  [k \in 1..Len(flagged) |-> AnomalyResult(channel[flagged[k]], m, cfg)]

\* The fixed order of the metric names.
MetricRank(m) == IF m = "temperature" THEN 0 ELSE 1
MetricOrder(ms) ==
    LET all == <<"temperature", "humidity">>
        Asked(m) == m \in ms
    IN  SelectSeq(all, Asked)

\* The results of all metrics, by timestamp, then by metric name.
MergeResults_concat(found) == found
MergeResults(found) ==
    SortByKey(found, [i \in 1..Len(found) |->
                         2 * found[i].timestamp + MetricRank(found[i].metric)])

\* Inputs.
DetTemps == {None, Num(0), Num(2)}
DetHums == {Num(0), Num(2)}
DetSeries ==
    UNION {{[i \in 1..n |-> [timestamp |-> Stamp(o, i, n),
                             temperature |-> t[i],
                             humidity |-> h[i]]] :
               o \in (IF n < 2 THEN {"asc"} ELSE Orders),
               t \in [1..n -> DetTemps],
               h \in [1..n -> DetHums]} :
           n \in {0, MaxDetPoints - 1, MaxDetPoints}}
DetMetricSets == {{"temperature"}, {"temperature", "humidity"}}
DetArgs ==
    [algorithm : Algorithms, window_size : {2}, threshold : {1, 6}]
    \cup {[algorithm |-> "isolation_forest", window_size |-> 2, threshold |-> 1],
           [algorithm |-> "z_score", window_size |-> 1, threshold |-> 1],
           [algorithm |-> "iqr", window_size |-> 2, threshold |-> 0]}

InitDetect ==
    /\ CallIdle
    /\ ParallelIdle
    /\ ApiIdle
    /\ CacheIdle
    /\ StoreIdle
    /\ SimIdle
    /\ det_args \in DetArgs
    /\ config = NoConfig
    /\ det_points \in DetSeries
    /\ det_metrics \in DetMetricSets
    /\ det_pc = "new"
    /\ det_todo = <<>>
    /\ det_found = <<>>
    /\ anomalies = <<>>
    /\ det_error = ""

\* DetectionConfig(...): validation at construction.
Construct ==
    /\ det_pc = "new"
    /\ IF ValidConfig(det_args)
       THEN /\ config' = det_args
            /\ det_pc' = "ready"
            /\ det_error' = ""
       ELSE /\ config' = NoConfig
            /\ det_pc' = "rejected"
            /\ det_error' = "ConfigurationError"
    /\ UNCHANGED <<det_args, det_points, det_metrics, det_todo, det_found,
                   anomalies>>
    /\ UNCHANGED notDetectorVars

\* detect: empty input gives an empty result at once.
DetectEmpty_raises ==
    /\ det_pc = "ready"
    /\ det_points = <<>>
    /\ det_pc' = "raised"
    /\ det_error' = "ValueError"
    /\ UNCHANGED <<det_args, config, det_points, det_metrics, det_todo,
                   det_found, anomalies>>
    /\ UNCHANGED notDetectorVars
DetectEmpty ==
    /\ det_pc = "ready"
    /\ det_points = <<>>
    /\ anomalies' = <<>>
    /\ det_pc' = "done"
    /\ UNCHANGED <<det_args, config, det_points, det_metrics, det_todo,
                   det_found, det_error>>
    /\ UNCHANGED notDetectorVars

\* detect: otherwise the metrics are taken one after the other.
DetectStart ==
    /\ det_pc = "ready"
    /\ det_points # <<>>
    /\ det_todo' = MetricOrder(det_metrics)
    /\ det_found' = <<>>
    /\ det_pc' = "metrics"
    /\ UNCHANGED <<det_args, config, det_points, det_metrics, anomalies,
                   det_error>>
    /\ UNCHANGED notDetectorVars

\* detect: one metric's channel is windowed and judged by the algorithm of
\* the configuration (an if/elif chain; a name it does not know is an error).
DetectMetric ==
    /\ det_pc = "metrics"
    /\ det_todo # <<>>
    /\ IF config.algorithm \in Algorithms
       THEN /\ det_found' = det_found \o
                   MetricAnomalies(det_points, Head(det_todo), config)
            /\ det_todo' = Tail(det_todo)
            /\ UNCHANGED <<det_pc, det_error>>
       ELSE /\ det_pc' = "raised"
            /\ det_error' = "ConfigurationError"
            /\ UNCHANGED <<det_found, det_todo>>
    /\ UNCHANGED <<det_args, config, det_points, det_metrics, anomalies>>
    /\ UNCHANGED notDetectorVars

\* detect: the results of the metrics are merged and returned.
DetectReturn ==
    /\ det_pc = "metrics"
    /\ det_todo = <<>>
    /\ anomalies' = MergeResults(det_found)
    /\ det_pc' = "done"
    /\ UNCHANGED <<det_args, config, det_points, det_metrics, det_todo,
                   det_found, det_error>>
    /\ UNCHANGED notDetectorVars

NextDetect ==
    Construct \/ DetectEmpty \/ DetectStart \/ DetectMetric \/ DetectReturn

SpecDetect == InitDetect /\ [][NextDetect]_vars

(***************************************************************************)
(* The HTTP service of digital_twin_service/main.py over the tables of     *)
(* database.py: POST /sla and GET /analytics/compliance.  A query          *)
(* parameter that may be omitted is a sequence, empty when omitted (None)  *)
(* and of one element when given.  The columns temperature and humidity    *)
(* of core_telemetryreading are floats that cannot be NULL                 *)
(* (core/models.py, lines 111-112), so no comparison of the evaluation     *)
(* raises here.                                                            *)
(***************************************************************************)
MaxSlas == 2

SlaNames == {"cold", "frozen", "ambient"}
DbTemps == {Num(1), Num(2)}
DbHums == {Num(0)}

\* The stored readings, as ORDER BY timestamp DESC returns them.
TelemetryTables ==
    UNION {{[i \in 1..n |-> [timestamp |-> n + 1 - i,
                             temperature |-> t[i],
                             humidity |-> h[i]]] :
               t \in [1..n -> DbTemps], h \in [1..n -> DbHums]} :
           n \in {0, 2}}

Reverse(seq) == [i \in 1..Len(seq) |-> seq[Len(seq) + 1 - i]]

\* DatabaseManager.list_sla: the rows by decreasing id; [] when the query
\* fails (the exception is caught).
list_sla_ascending(ok) == IF ok THEN sla_table ELSE <<>>
list_sla(ok) == IF ok THEN Reverse(sla_table) ELSE <<>>

\* DatabaseManager.list_telemetry: the rows at or after since, latest first;
\* [] when the query fails.
list_telemetry(since, ok) ==
    LET Kept(r) == since = <<>> \/ r.timestamp >= since[1]
    IN  IF ok THEN SelectSeq(telemetry_table, Kept) ELSE <<>>

\* The band compute_compliance reads from a row of core_slaconfig.
BandOfRow(row) ==
    [temp_min |-> row.temp_min, temp_max |-> row.temp_max,
     humidity_min |-> row.humidity_min, humidity_max |-> row.humidity_max]

\* Python truth of the parameter sla_name: None and "" are false.
Truthy(name) == name # <<>> /\ name[1] # ""

\* for s in slas: if s["name"] == sla_name: sla = s; break
FirstNamed(rows, name) ==
    LET hits == {i \in 1..Len(rows) : rows[i].name = name}
    IN  IF hits = {} THEN 0
        ELSE CHOOSE i \in hits : \A k \in hits : i <= k

InitCompliance ==
    /\ CallIdle
    /\ ParallelIdle
    /\ DetectorIdle
    /\ CacheIdle
    /\ StoreIdle
    /\ SimIdle
    /\ sla_table = <<>>
    /\ telemetry_table \in TelemetryTables
    /\ request = NoRequest
    /\ slas = <<>>
    /\ telemetry = <<>>
    /\ http_pc = "idle"
    /\ response = NoResponse

\* POST /sla (main.py, create_sla; database.py, create_sla).  The insert
\* fails on a name already present (the column is unique) or when the
\* database fails; the failure is answered 400.
CreateSla ==
    /\ http_pc \in {"idle", "responded"}
    /\ Len(sla_table) < MaxSlas
    /\ \E name \in SlaNames, band \in CallBands, ok \in BOOLEAN :
          /\ request' = [path |-> "POST /sla", sla_name |-> <<name>>, since |-> <<>>]
          /\ IF ok /\ \A i \in 1..Len(sla_table) : sla_table[i].name # name
             THEN /\ sla_table' = Append(sla_table,
                        [id |-> Len(sla_table) + 1, name |-> name,
                         temp_min |-> band.temp_min,
                         temp_max |-> band.temp_max,
                         humidity_min |-> band.humidity_min,
                         humidity_max |-> band.humidity_max])
                  /\ response' = [status |-> 200, detail |-> "created",
                                  body |-> NoResult]
             ELSE /\ sla_table' = sla_table
                  /\ response' = [status |-> 400,
                                  detail |-> "Failed to create SLA",
                                  body |-> NoResult]
    /\ http_pc' = "responded"
    /\ UNCHANGED <<telemetry_table, slas, telemetry>>
    /\ UNCHANGED <<callVars, notApiVars>>

\* GET /analytics/compliance, lines 203-219: fetch, choose the SLA, and
\* either answer 400 or 404 or call compute_compliance.
analytics_compliance ==
    /\ http_pc \in {"idle", "responded"}
    /\ \E sla_name \in {<<>>, <<"">>} \cup {<<n>> : n \in SlaNames},
          since \in {<<>>, <<2>>},
          tel_ok \in BOOLEAN, sla_ok \in BOOLEAN :
          LET fetched == list_telemetry(since, tel_ok)
              listed == list_sla(sla_ok)
              hit == IF Truthy(sla_name) THEN FirstNamed(listed, sla_name[1])
                     ELSE 1
          IN  /\ request' = [path |-> "GET /analytics/compliance",
                             sla_name |-> sla_name, since |-> since]
              /\ telemetry' = fetched
              /\ slas' = listed
              /\ IF listed = <<>>
                 THEN /\ response' = [status |-> 400,
                                      detail |-> "No SLA configured",
                                      body |-> NoResult]
                      /\ http_pc' = "responded"
                      /\ UNCHANGED callVars
                 ELSE IF hit = 0
                 THEN /\ response' = [status |-> 404,
                                      detail |-> "SLA not found",
                                      body |-> NoResult]
                      /\ http_pc' = "responded"
                      /\ UNCHANGED callVars
                 ELSE /\ response' = NoResponse
                      /\ http_pc' = "computing"
                      /\ telemetry_points' = fetched
                      /\ sla' = BandOfRow(listed[hit])
                      /\ pc' = "call"
                      /\ temp_min' = 0 /\ temp_max' = 0
                      /\ humidity_min' = 0 /\ humidity_max' = 0
                      /\ num_points' = 0
                      /\ points_in_range' = 0
                      /\ excursions' = <<>>
                      /\ idx' = 0
                      /\ result' = NoResult
                      /\ error' = ""
    /\ UNCHANGED <<sla_table, telemetry_table>>
    /\ UNCHANGED notApiVars

\* line 220: the value compute_compliance returned is the response.
RespondCompliance ==
    /\ http_pc = "computing"
    /\ pc = "done"
    /\ response' = [status |-> 200, detail |-> "", body |-> result]
    /\ http_pc' = "responded"
    /\ UNCHANGED <<sla_table, telemetry_table, request, slas, telemetry>>
    /\ UNCHANGED <<callVars, notApiVars>>

NextCompliance ==
    \/ CreateSla
    \/ analytics_compliance
    \/ ReturnEmpty
    \/ Setup
    \/ Iterate
    \/ Return
    \/ RespondCompliance

SpecCompliance == InitCompliance /\ [][NextCompliance]_vars

(***************************************************************************)
(* The stats cache: GET /stats and DELETE /cache/clear of main.py over the *)
(* CacheManager of cache.py.  Redis is a map from keys to entries that     *)
(* expire; a second of time is one Tick.  A value is stored as JSON and    *)
(* read back with json.loads: for a dictionary of three integers and a     *)
(* boolean that round trip is exact, and the entry keeps the four fields.  *)
(* A Redis that answered the ping at construction answers every command.   *)
(***************************************************************************)
MaxRows == 2
StatsTtl == 30

\* CacheManager._generate_key: f"bio_supply:{prefix}:{identifier}".
generate_key(prefix, identifier) == <<"bio_supply", prefix, identifier>>

\* The prefix of get, set and delete when none is given.
DefaultPrefix == "general"

\* The keys the three calls of main.py touch.
ReadKey == generate_key("api", "stats")
WrittenKey == generate_key(DefaultPrefix, "stats")
DeletedKey_api == generate_key("api", "stats")
DeletedKey == generate_key(DefaultPrefix, "stats")
RedisKeys == {ReadKey, WrittenKey, DeletedKey}

Counts ==
    {c \in [num_boxes : 0..MaxRows, num_samples : 0..MaxRows,
            num_active_alerts : 0..MaxRows] :
        c.num_boxes + c.num_samples + c.num_active_alerts <= MaxRows}

\* CacheManager.get, lines 58-85: None when disabled, when the key is absent
\* and when the Redis call raises.
cache_get_uncaught(key, prefix) ==
    IF ~connected
    THEN [value |-> NoEntry, raised |-> FALSE, called |-> FALSE]
    ELSE IF ~redis_up
    THEN [value |-> NoEntry, raised |-> TRUE, called |-> TRUE]
    ELSE [value |-> redis[generate_key(prefix, key)], raised |-> FALSE,
          called |-> TRUE]
cache_get(key, prefix) ==
    IF ~connected
    THEN [value |-> NoEntry, raised |-> FALSE, called |-> FALSE]
    ELSE IF ~redis_up
    THEN [value |-> NoEntry, raised |-> FALSE, called |-> TRUE]
    ELSE [value |-> redis[generate_key(prefix, key)], raised |-> FALSE,
          called |-> TRUE]

\* CacheManager.get_api_cache, lines 199-201.
get_api_cache(endpoint) == cache_get(endpoint, "api")

\* CacheManager.set, lines 87-113: setex of the serialised value; False when
\* disabled and when the Redis call raises.
cache_set(key, value, ttl, prefix) ==
    IF ~connected
    THEN [ok |-> FALSE, raised |-> FALSE, called |-> FALSE, store |-> redis]
    ELSE IF ~redis_up
    THEN [ok |-> FALSE, raised |-> FALSE, called |-> TRUE, store |-> redis]
    ELSE [ok |-> TRUE, raised |-> FALSE, called |-> TRUE,
          store |-> [redis EXCEPT ![generate_key(prefix, key)] =
                        [present |-> TRUE, value |-> value,
                         from_cache |-> FALSE, ttl |-> ttl,
                         by |-> "GET /stats"]]]

\* CacheManager.delete, lines 115-128: bool of the number of keys deleted;
\* False when disabled and when the Redis call raises.
cache_delete(key, prefix) ==
    IF ~connected
    THEN [ok |-> FALSE, raised |-> FALSE, called |-> FALSE, store |-> redis]
    ELSE IF ~redis_up
    THEN [ok |-> FALSE, raised |-> FALSE, called |-> TRUE, store |-> redis]
    ELSE [ok |-> redis[generate_key(prefix, key)].present,
          raised |-> FALSE, called |-> TRUE,
          store |-> [redis EXCEPT ![generate_key(prefix, key)] = NoEntry]]

\* CacheManager.clear_prefix, lines 130-155: the number of keys of the
\* prefix deleted; 0 when disabled and when a Redis call raises.
clear_prefix(prefix) ==
    LET keys == {k \in RedisKeys : k[2] = prefix /\ redis[k].present}
    IN  IF ~connected
        THEN [count |-> 0, raised |-> FALSE, called |-> FALSE, store |-> redis]
        ELSE IF ~redis_up
        THEN [count |-> 0, raised |-> FALSE, called |-> TRUE, store |-> redis]
        ELSE [count |-> Cardinality(keys), raised |-> FALSE, called |-> TRUE,
              store |-> [k \in RedisKeys |->
                            IF k \in keys THEN NoEntry ELSE redis[k]]]

\* CacheManager.get_cache_stats, lines 157-177.
get_cache_stats ==
    IF ~connected
    THEN [status |-> "disconnected", raised |-> FALSE, called |-> FALSE]
    ELSE IF ~redis_up
    THEN [status |-> "error", raised |-> FALSE, called |-> TRUE]
    ELSE [status |-> "connected", raised |-> FALSE, called |-> TRUE]

\* CacheManager(): connected is whether Redis answered the ping.
InitCache ==
    /\ CallIdle
    /\ ParallelIdle
    /\ DetectorIdle
    /\ ApiIdle
    /\ StoreIdle
    /\ SimIdle
    /\ connected \in BOOLEAN
    /\ redis_up = connected
    /\ op_result = NoOp
    /\ redis = [k \in RedisKeys |-> NoEntry]
    /\ db_counts \in Counts
    /\ stats_reply = NoReply
    /\ stored_age = -1
    /\ stored_reply = NoReply
    /\ cleared_since = FALSE
    /\ last_clear = ""
    /\ observed = NothingObserved

\* GET /stats, main.py lines 171-194.
get_stats ==
    LET got == get_api_cache("stats")
        cached_stats == got.value
        hit == cached_stats.present
        stats == [path |-> "GET /stats", counts |-> db_counts,
                  from_cache |-> FALSE, deleted |-> FALSE, raised |-> FALSE]
        put == cache_set("stats", db_counts, StatsTtl, DefaultPrefix)
    IN  /\ observed' = [age_before |-> stored_age,
                        cleared_before |-> cleared_since,
                        reply_before |-> stored_reply,
                        after_clear |-> last_clear,
                        present_before |-> FALSE,
                        db_before |-> db_counts,
                        queried_db |-> ~got.raised /\ ~hit,
                        up_before |-> redis_up]
        /\ last_clear' = ""
        /\ IF got.raised
           THEN /\ stats_reply' = [path |-> "GET /stats", counts |-> NoCounts,
                                   from_cache |-> FALSE, deleted |-> FALSE,
                                   raised |-> TRUE]
                /\ UNCHANGED <<redis, stored_age, stored_reply, cleared_since>>
           ELSE IF hit
           THEN /\ stats_reply' = [path |-> "GET /stats",
                                   counts |-> cached_stats.value,
                                   from_cache |-> TRUE, deleted |-> FALSE,
                                   raised |-> FALSE]
                /\ UNCHANGED <<redis, stored_age, stored_reply, cleared_since>>
           ELSE /\ stats_reply' = [stats EXCEPT !.raised = put.raised]
                /\ redis' = put.store
                /\ IF put.ok
                   THEN /\ stored_age' = 0
                        /\ stored_reply' = stats
                        /\ cleared_since' = FALSE
                   ELSE UNCHANGED <<stored_age, stored_reply, cleared_since>>
        /\ UNCHANGED <<connected, redis_up, op_result, db_counts>>
        /\ UNCHANGED notCacheVars

\* DELETE /cache/clear, main.py lines 230-237.
clear_cache ==
    LET del == cache_delete("stats", DeletedKey[2])
    IN  /\ observed' = [age_before |-> stored_age,
                        cleared_before |-> cleared_since,
                        reply_before |-> stored_reply,
                        after_clear |-> last_clear,
                        present_before |->
                            \E k \in RedisKeys :
                                redis[k].present /\ redis[k].by = "GET /stats",
                        db_before |-> db_counts,
                        queried_db |-> FALSE,
                        up_before |-> redis_up]
        /\ redis' = del.store
        /\ stats_reply' = [path |-> "DELETE /cache/clear", counts |-> NoCounts,
                           from_cache |-> FALSE, deleted |-> del.ok,
                           raised |-> del.raised]
        /\ cleared_since' = TRUE
        /\ last_clear' = IF del.ok THEN "deleted" ELSE "nothing"
        /\ UNCHANGED <<connected, redis_up, op_result, db_counts, stored_age,
                       stored_reply>>
        /\ UNCHANGED notCacheVars

\* One second passes: Redis counts the entries down and drops those at zero.
Tick ==
    /\ stored_age >= 0
    /\ stored_age < StatsTtl
    /\ stored_age' = stored_age + 1
    /\ redis' = [k \in RedisKeys |->
                    IF ~redis[k].present THEN redis[k]
                    ELSE IF redis[k].ttl = 1 THEN NoEntry
                    ELSE [redis[k] EXCEPT !.ttl = redis[k].ttl - 1]]
    /\ UNCHANGED <<connected, redis_up, op_result, db_counts, stats_reply,
                   stored_reply, cleared_since, last_clear, observed>>
    /\ UNCHANGED notCacheVars

\* A box, a sample or an active alert is added to the database.
DbChange ==
    /\ db_counts.num_boxes + db_counts.num_samples
          + db_counts.num_active_alerts < MaxRows
    /\ \E f \in {"num_boxes", "num_samples", "num_active_alerts"} :
          db_counts' = [db_counts EXCEPT ![f] = db_counts[f] + 1]
    /\ UNCHANGED <<connected, redis_up, op_result, redis, stats_reply,
                   stored_age, stored_reply, cleared_since, last_clear,
                   observed>>
    /\ UNCHANGED notCacheVars

NextCache == get_stats \/ clear_cache \/ Tick \/ DbChange

SpecCache == InitCache /\ [][NextCache]_vars

(***************************************************************************)
(* The same cache with a Redis that may stop and resume answering after    *)
(* the construction, and with the operations of the CacheManager called    *)
(* one by one.  Time is not advanced here.                                 *)
(***************************************************************************)
RedisFlips ==
    /\ redis_up' = ~redis_up
    /\ UNCHANGED <<connected, op_result, redis, db_counts, stats_reply,
                   stored_age, stored_reply, cleared_since, last_clear,
                   observed>>
    /\ UNCHANGED notCacheVars

CachePrefixes == {"api", "general"}

\* One operation of the CacheManager is called on the key "stats".
CallOperation ==
    /\ \E op \in {"get", "set", "delete", "clear_prefix", "get_cache_stats"},
          prefix \in CachePrefixes :
          LET g == cache_get("stats", prefix)
              st == cache_set("stats", db_counts, StatsTtl, prefix)
              d == cache_delete("stats", prefix)
              c == clear_prefix(prefix)
              h == get_cache_stats
              base == [NoOp EXCEPT !.op = op, !.was_connected = connected,
                                   !.was_up = redis_up]
          IN  /\ op_result' =
                    IF op = "get"
                    THEN [base EXCEPT !.value = g.value, !.raised = g.raised,
                                      !.called = g.called]
                    ELSE IF op = "set"
                    THEN [base EXCEPT !.ok = st.ok, !.raised = st.raised,
                                      !.called = st.called]
                    ELSE IF op = "delete"
                    THEN [base EXCEPT !.ok = d.ok, !.raised = d.raised,
                                      !.called = d.called]
                    ELSE IF op = "clear_prefix"
                    THEN [base EXCEPT !.count = c.count, !.raised = c.raised,
                                      !.called = c.called]
                    ELSE [base EXCEPT !.status = h.status,
                                      !.raised = h.raised, !.called = h.called]
              /\ redis' = IF op = "set" THEN st.store
                          ELSE IF op = "delete" THEN d.store
                          ELSE IF op = "clear_prefix" THEN c.store
                          ELSE redis
    /\ UNCHANGED <<connected, redis_up, db_counts, stats_reply, stored_age,
                   stored_reply, cleared_since, last_clear, observed>>
    /\ UNCHANGED notCacheVars

InitFaults ==
    /\ InitCache
    /\ db_counts = NoCounts

NextFaults == get_stats \/ DbChange \/ RedisFlips \/ CallOperation

SpecFaults == InitFaults /\ [][NextFaults]_vars

(***************************************************************************)
(* The Django database of the core service (core/models.py) as the ORM     *)
(* calls of the seed migration and of the MQTT consumer use it.  A table   *)
(* is a set of rows, each with the primary key the table's sequence gave   *)
(* it.  Floats are kept in tenths (40 stands for 4.0); a NULL is "" in a   *)
(* text or date column and 0 in a timestamp or foreign-key column.         *)
(***************************************************************************)
\* Model.save() and QuerySet.update(): the fields given replace the row's.
Override(row, fields) ==
    [f \in DOMAIN row |-> IF f \in DOMAIN fields THEN fields[f] ELSE row[f]]

BoxesWithId(d, box_id) == {r \in d.boxes : r.box_id = box_id}
SamplesWithId(d, sample_id) == {r \in d.samples : r.sample_id = sample_id}

\* INSERT into core_transportbox: box_id is unique (models.py, line 82);
\* last_updated is auto_now.
InsertBox_unchecked(d, box_id, fields, t) ==
    LET row == Override([pk |-> d.box_seq + 1, box_id |-> box_id,
                         geolocation |-> "", temperature |-> 0,
                         humidity |-> 0, status |-> "",
                         last_updated |-> t], fields)
    IN  [ok |-> TRUE, row |-> row,
         db |-> [d EXCEPT !.boxes = @ \cup {row}, !.box_seq = @ + 1]]
InsertBox(d, box_id, fields, t) ==
    LET row == Override([pk |-> d.box_seq + 1, box_id |-> box_id,
                         geolocation |-> "", temperature |-> 0,
                         humidity |-> 0, status |-> "",
                         last_updated |-> t], fields)
    IN  IF BoxesWithId(d, box_id) # {}
        THEN [ok |-> FALSE, row |-> row, db |-> d]
        ELSE [ok |-> TRUE, row |-> row,
              db |-> [d EXCEPT !.boxes = @ \cup {row}, !.box_seq = @ + 1]]

\* UPDATE of the row of an instance (save of an object read before): the
\* unique constraint is checked against the other rows.
SaveBox(d, box, t) ==
    LET row == [box EXCEPT !.last_updated = t]
        others == {r \in d.boxes : r.pk # box.pk}
    IN  IF \E r \in others : r.box_id = row.box_id
        THEN [ok |-> FALSE, row |-> box, db |-> d]
        ELSE [ok |-> TRUE, row |-> row,
              db |-> [d EXCEPT !.boxes = others \cup {row}]]

\* TransportBox.objects.get_or_create(box_id=..., defaults=...).
get_or_create_box(d, box_id, defaults, t) ==
    IF BoxesWithId(d, box_id) # {}
    THEN [ok |-> TRUE, created |-> FALSE,
          row |-> CHOOSE r \in BoxesWithId(d, box_id) : TRUE, db |-> d]
    ELSE LET ins == InsertBox(d, box_id, defaults, t)
         IN  [ok |-> ins.ok, created |-> ins.ok, row |-> ins.row,
              db |-> ins.db]

\* TransportBox.objects.update_or_create(box_id=..., defaults=...).
update_or_create_box_keep(d, box_id, defaults, t) ==
    get_or_create_box(d, box_id, defaults, t)
update_or_create_box(d, box_id, defaults, t) ==
    IF BoxesWithId(d, box_id) # {}
    THEN LET sv == SaveBox(d, Override(CHOOSE r \in BoxesWithId(d, box_id) :
                                           TRUE, defaults), t)
         IN  [ok |-> sv.ok, created |-> FALSE, row |-> sv.row, db |-> sv.db]
    ELSE LET ins == InsertBox(d, box_id, defaults, t)
         IN  [ok |-> ins.ok, created |-> ins.ok, row |-> ins.row,
              db |-> ins.db]

\* INSERT into core_sample: sample_id is unique, box and collected_at are
\* NOT NULL (models.py, lines 92-100).
InsertSample(d, sample_id, fields, t) ==
    LET row == Override([pk |-> d.sample_seq + 1, sample_id |-> sample_id,
                         box |-> 0, name |-> "", description |-> "",
                         collected_at |-> "", status |-> "",
                         temperature |-> 0, humidity |-> 0,
                         last_updated |-> t], fields)
    IN  IF \/ SamplesWithId(d, sample_id) # {}
           \/ row.collected_at = ""
           \/ row.box = 0
        THEN [ok |-> FALSE, row |-> row, db |-> d]
        ELSE [ok |-> TRUE, row |-> row,
              db |-> [d EXCEPT !.samples = @ \cup {row}, !.sample_seq = @ + 1]]

SaveSample(d, sample, t) ==
    LET row == [sample EXCEPT !.last_updated = t]
        others == {r \in d.samples : r.pk # sample.pk}
    IN  IF \/ \E r \in others : r.sample_id = row.sample_id
           \/ row.collected_at = ""
           \/ row.box = 0
        THEN [ok |-> FALSE, row |-> sample, db |-> d]
        ELSE [ok |-> TRUE, row |-> row,
              db |-> [d EXCEPT !.samples = others \cup {row}]]

\* Sample.objects.get_or_create(sample_id=..., defaults=...).
get_or_create_sample(d, sample_id, defaults, t) ==
    IF SamplesWithId(d, sample_id) # {}
    THEN [ok |-> TRUE, created |-> FALSE,
          row |-> CHOOSE r \in SamplesWithId(d, sample_id) : TRUE, db |-> d]
    ELSE LET ins == InsertSample(d, sample_id, defaults, t)
         IN  [ok |-> ins.ok, created |-> ins.ok, row |-> ins.row,
              db |-> ins.db]

\* Sample.objects.update_or_create(sample_id=..., defaults=...).
update_or_create_sample(d, sample_id, defaults, t) ==
    IF SamplesWithId(d, sample_id) # {}
    THEN LET sv == SaveSample(d, Override(CHOOSE r \in SamplesWithId(d, sample_id) :
                                              TRUE, defaults), t)
         IN  [ok |-> sv.ok, created |-> FALSE, row |-> sv.row, db |-> sv.db]
    ELSE LET ins == InsertSample(d, sample_id, defaults, t)
         IN  [ok |-> ins.ok, created |-> ins.ok, row |-> ins.row,
              db |-> ins.db]

\* TelemetryReading.objects.create(...): timestamp, temperature and humidity
\* are NOT NULL (models.py, lines 110-112).
InsertReading(d, fields) ==
    LET row == Override([pk |-> d.reading_seq + 1, box |-> 0, sample |-> 0,
                         timestamp |-> 0, temperature |-> 0, humidity |-> 0,
                         geolocation |-> ""], fields)
    IN  IF row.timestamp = 0
        THEN [ok |-> FALSE, row |-> row, db |-> d]
        ELSE [ok |-> TRUE, row |-> row,
              db |-> [d EXCEPT !.readings = @ \cup {row},
                               !.reading_seq = @ + 1]]

\* QuerySet.delete(): the foreign keys are on_delete=CASCADE.
DeleteSamples(d, sample_ids) ==
    LET gone == {r.pk : r \in {x \in d.samples : x.sample_id \in sample_ids}}
    IN  [d EXCEPT !.samples = {r \in @ : r.pk \notin gone},
                  !.readings = {r \in @ : r.sample \notin gone}]
DeleteBoxes(d, box_ids) ==
    LET gone == {r.pk : r \in {x \in d.boxes : x.box_id \in box_ids}}
        samples_gone == {r.pk : r \in {x \in d.samples : x.box \in gone}}
    IN  [d EXCEPT !.boxes = {r \in @ : r.pk \notin gone},
                  !.samples = {r \in @ : r.pk \notin samples_gone},
                  !.readings = {r \in @ : r.box \notin gone
                                          /\ r.sample \notin samples_gone}]

(***************************************************************************)
(* The seed migration, core/migrations/0002_seed_data.py.                  *)
(***************************************************************************)
\* lines 16-31
SeedBoxes ==
    <<[box_id |-> "BOX-0001", geolocation |-> "52.5200,13.4050",
       temperature |-> 40, humidity |-> 500, status |-> "in_transit"],
      [box_id |-> "BOX-0002", geolocation |-> "51.5074,-0.1278",
       temperature |-> 25, humidity |-> 480, status |-> "idle"]>>

\* lines 44-65
SeedSamples ==
    <<[sample_id |-> "SAMPLE-0001", box_id |-> "BOX-0001",
       name |-> "Blood Sample A", description |-> "Control sample A",
       collected_at |-> "2025-01-01 10:00:00", status |-> "collected",
       temperature |-> 40, humidity |-> 500],
      [sample_id |-> "SAMPLE-0002", box_id |-> "BOX-0002",
       name |-> "Vaccine Batch 1", description |-> "Test vaccine batch",
       collected_at |-> "2025-01-02 11:30:00", status |-> "stored",
       temperature |-> 25, humidity |-> 480]>>

\* lines 33-42: the loop over boxes, from its i-th element on.
RECURSIVE SeedBoxesFrom(_, _, _)
SeedBoxesFrom(d, i, t) ==
    IF i > Len(SeedBoxes) THEN d
    ELSE LET b == SeedBoxes[i]
             r == update_or_create_box(d, b.box_id,
                      [geolocation |-> b.geolocation,
                       temperature |-> b.temperature,
                       humidity |-> b.humidity, status |-> b.status], t)
         IN  SeedBoxesFrom(r.db, i + 1, t)

\* lines 67-88: the loop over samples, from its i-th element on.
RECURSIVE SeedSamplesFrom(_, _, _)
SeedSamplesFrom(d, i, t) ==
    IF i > Len(SeedSamples) THEN d
    ELSE LET sm == SeedSamples[i]
             box_ref == get_or_create_box(d, sm.box_id,
                            [geolocation |-> "unknown",
                             temperature |-> sm.temperature,
                             humidity |-> sm.humidity,
                             status |-> "created_by_migration"], t)
             r == update_or_create_sample(box_ref.db, sm.sample_id,
                      [box |-> box_ref.row.pk, name |-> sm.name,
                       description |-> sm.description,
                       collected_at |-> sm.collected_at,
                       status |-> sm.status, temperature |-> sm.temperature,
                       humidity |-> sm.humidity], t)
         IN  SeedSamplesFrom(r.db, i + 1, t)

\* seed_data, lines 12-88.
seed_data(d, t) == SeedSamplesFrom(SeedBoxesFrom(d, 1, t), 1, t)

\* unseed_data, lines 91-96.
unseed_data(d) ==
    DeleteBoxes(DeleteSamples(d, {"SAMPLE-0001", "SAMPLE-0002"}),
                {"BOX-0001", "BOX-0002"})

MaxApplications == 2
MaxClock == 3

\* Rows that may be there before the migration is applied.
OldBoxes ==
    {[pk |-> 1, box_id |-> "BOX-0001", geolocation |-> "elsewhere",
      temperature |-> 70, humidity |-> 300, status |-> "idle",
      last_updated |-> 0],
     [pk |-> 2, box_id |-> "BOX-0007", geolocation |-> "depot",
      temperature |-> 50, humidity |-> 400, status |-> "idle",
      last_updated |-> 0]}
OldSamples ==
    {[pk |-> 1, sample_id |-> "SAMPLE-0001", box |-> 2, name |-> "old",
      description |-> "old", collected_at |-> "2024-12-31 00:00:00",
      status |-> "lost", temperature |-> 70, humidity |-> 300,
      last_updated |-> 0],
     [pk |-> 2, sample_id |-> "SAMPLE-0009", box |-> 1, name |-> "other",
      description |-> "other", collected_at |-> "2024-12-31 00:00:00",
      status |-> "stored", temperature |-> 50, humidity |-> 400,
      last_updated |-> 0]}
OldReadings ==
    {[pk |-> 1, box |-> 1, sample |-> 0, timestamp |-> 1, temperature |-> 70,
      humidity |-> 300, geolocation |-> "elsewhere"]}
OldDbs ==
    {[boxes |-> bs, samples |-> ss, readings |-> rs,
      box_seq |-> 2, sample_seq |-> 2, reading_seq |-> 1] :
        bs \in SUBSET OldBoxes,
        ss \in {x \in SUBSET OldSamples :
                   \A r \in x : \E b \in OldBoxes : b.pk = r.box},
        rs \in SUBSET OldReadings}

\* A database whose foreign keys point at rows that are there.
Consistent(d) ==
    /\ \A r \in d.samples : \E b \in d.boxes : b.pk = r.box
    /\ \A r \in d.readings : r.box = 0 \/ \E b \in d.boxes : b.pk = r.box

InitSeed ==
    /\ CallIdle
    /\ ParallelIdle
    /\ DetectorIdle
    /\ ApiIdle
    /\ CacheIdle
    /\ SimIdle
    /\ db \in {d \in OldDbs : Consistent(d)}
    /\ now = 1
    /\ seed_log = NoSeed
    /\ delivery = NoDelivery
    /\ creation = NoCreation
    /\ journal = <<>>

\* manage.py migrate core 0002: RunPython(seed_data), in one transaction.
ApplySeed ==
    /\ ~seed_log.unseeded
    /\ seed_log.applied < MaxApplications
    /\ db' = seed_data(db, now)
    /\ seed_log' = [applied |-> seed_log.applied + 1,
                    before |-> IF seed_log.applied = 0 THEN db
                               ELSE seed_log.before,
                    first |-> IF seed_log.applied = 0 THEN seed_data(db, now)
                              ELSE seed_log.first,
                    at |-> now, unseeded |-> FALSE]
    /\ UNCHANGED <<now, delivery, creation, journal>>
    /\ UNCHANGED notStoreVars

\* manage.py migrate core 0001: RunPython's reverse, unseed_data.
ApplyUnseed ==
    /\ ~seed_log.unseeded
    /\ seed_log.applied >= 1
    /\ db' = unseed_data(db)
    /\ seed_log' = [seed_log EXCEPT !.unseeded = TRUE]
    /\ UNCHANGED <<now, delivery, creation, journal>>
    /\ UNCHANGED notStoreVars

\* Time passes.
ClockTick ==
    /\ now < MaxClock
    /\ now' = now + 1
    /\ UNCHANGED <<db, seed_log, delivery, creation, journal>>
    /\ UNCHANGED notStoreVars

NextSeed == ApplySeed \/ ApplyUnseed \/ ClockTick

SpecSeed == InitSeed /\ [][NextSeed]_vars

(***************************************************************************)
(* The MQTT consumer, core/management/commands/mqtt_consumer.py.  A        *)
(* message is its topic split at "/", the kind of its payload bytes and,   *)
(* for a JSON object, the object.  The command runs in autocommit: every   *)
(* ORM call is its own transaction.                                        *)
(***************************************************************************)
MaxMessages == 3

\* payload.get(k, default)
PayloadGet(p, k, default) == IF k \in DOMAIN p THEN p[k] ELSE default
\* payload.get(k) is truthy, for the text fields and for the timestamp
HasText(p, k) == k \in DOMAIN p /\ p[k] # ""
HasStamp(p) == "timestamp" \in DOMAIN p /\ p.timestamp # 0

\* json.loads gave a dict: payload.get and payload.items exist.
IsDict(payload) == payload.kind = "object"

\* lines 225-230: the box with the latest telemetry data.
BoxAfterTelemetry_stale(box, p) == box
BoxAfterTelemetry(box, p) ==
    Override(box,
        [f \in {"temperature", "humidity"} \cup
               {k \in {"geolocation", "status"} : HasText(p, k)} |->
            PayloadGet(p, f, box[f])])

\* _process_box_telemetry, lines 200-236.
process_box_telemetry(d, box_id, payload, t) ==
    IF ~IsDict(payload) THEN d
    ELSE
    LET p == payload.body
        got == get_or_create_box(d, box_id,
                   [geolocation |-> PayloadGet(p, "geolocation", "unknown"),
                    temperature |-> PayloadGet(p, "temperature", 0),
                    humidity |-> PayloadGet(p, "humidity", 0),
                    status |-> "active"], t)
        made == InsertReading(got.db,
                   [box |-> got.row.pk, sample |-> 0,
                    timestamp |-> IF HasStamp(p) THEN p.timestamp ELSE 0,
                    temperature |-> PayloadGet(p, "temperature", 0),
                    humidity |-> PayloadGet(p, "humidity", 0),
                    geolocation |-> PayloadGet(p, "geolocation",
                                               got.row.geolocation)])
    IN  IF ~got.ok \/ ~made.ok THEN got.db
        ELSE SaveBox(made.db, BoxAfterTelemetry(got.row, p), t).db

\* _process_sample_telemetry, lines 238-266.
process_sample_telemetry_unowned(d, sample_id, payload, t) ==
    IF SamplesWithId(d, sample_id) = {} /\ IsDict(payload)
    THEN InsertReading(d,
             [timestamp |-> IF HasStamp(payload.body)
                            THEN payload.body.timestamp ELSE 0,
              temperature |-> PayloadGet(payload.body, "temperature", 0),
              humidity |-> PayloadGet(payload.body, "humidity", 0),
              geolocation |-> "unknown"]).db
    ELSE d
process_sample_telemetry(d, sample_id, payload, t) ==
    IF SamplesWithId(d, sample_id) = {} \/ ~IsDict(payload) THEN d
    ELSE
    LET p == payload.body
        sample == CHOOSE r \in SamplesWithId(d, sample_id) : TRUE
        box == CHOOSE b \in d.boxes : b.pk = sample.box
        made == InsertReading(d,
                   [box |-> sample.box, sample |-> sample.pk,
                    timestamp |-> IF HasStamp(p) THEN p.timestamp ELSE 0,
                    temperature |-> PayloadGet(p, "temperature", 0),
                    humidity |-> PayloadGet(p, "humidity", 0),
                    geolocation |-> PayloadGet(p, "geolocation",
                                               box.geolocation)])
        latest == Override(sample,
                   [f \in {"temperature", "humidity"} \cup
                          {k \in {"status"} : HasText(p, k)} |->
                       PayloadGet(p, f, sample[f])])
    IN  IF ~made.ok THEN d ELSE SaveSample(made.db, latest, t).db

\* _update_box, lines 176-198.
update_box(d, box_id, payload, t) ==
    IF ~IsDict(payload) THEN d
    ELSE
    LET p == payload.body
        got == get_or_create_box(d, box_id,
                   [geolocation |-> PayloadGet(p, "geolocation", "unknown"),
                    temperature |-> PayloadGet(p, "temperature", 0),
                    humidity |-> PayloadGet(p, "humidity", 0),
                    status |-> PayloadGet(p, "status", "unknown")], t)
    IN  IF ~got.ok \/ got.created THEN got.db
        ELSE SaveBox(got.db, Override(got.row, p), t).db

\* _update_sample, lines 134-174.
update_sample(d, sample_id, payload, t) ==
    LET default_box == get_or_create_box(d, "DEFAULT-BOX",
                           [geolocation |-> "unknown", temperature |-> 0,
                            humidity |-> 0, status |-> "default"], t)
    IN  IF ~IsDict(payload) THEN default_box.db
        ELSE
        LET p == payload.body
            got == get_or_create_sample(default_box.db, sample_id,
                       [name |-> PayloadGet(p, "name", ""),
                        description |-> PayloadGet(p, "description", ""),
                        status |-> PayloadGet(p, "status", "unknown"),
                        temperature |-> PayloadGet(p, "temperature", 0),
                        humidity |-> PayloadGet(p, "humidity", 0),
                        collected_at |-> IF HasText(p, "collected_at")
                                         THEN p.collected_at ELSE "",
                        box |-> default_box.row.pk], t)
        IN  IF ~got.ok \/ got.created THEN got.db
            ELSE SaveSample(got.db, Override(got.row, p), t).db

\* _on_message, lines 94-132: the database afterwards, the handlers called
\* and whether an exception left the callback.
OnMessage(d, m, t) ==
    IF Len(m.topic) < 4
    THEN [db |-> d, handlers |-> <<>>, raised |-> FALSE]
    ELSE
    LET topic_type == m.topic[2]
        model_type == m.topic[3]
        model_id == m.topic[4]
        payload == [kind |-> m.kind, body |-> m.body]
    IN  IF m.kind = "not_utf8"
        THEN [db |-> d, handlers |-> <<>>, raised |-> TRUE]
        ELSE IF m.kind = "not_json"
        THEN [db |-> d, handlers |-> <<>>, raised |-> FALSE]
        ELSE IF topic_type = "updates" /\ model_type = "sample"
        THEN [db |-> update_sample(d, model_id, payload, t),
              handlers |-> <<"_update_sample">>, raised |-> FALSE]
        ELSE IF topic_type = "updates" /\ model_type = "box"
        THEN [db |-> update_box(d, model_id, payload, t),
              handlers |-> <<"_update_box">>, raised |-> FALSE]
        ELSE IF topic_type = "telemetry" /\ model_type = "sample"
        THEN [db |-> process_sample_telemetry(d, model_id, payload, t),
              handlers |-> <<"_process_sample_telemetry">>,
              raised |-> FALSE]
        ELSE IF topic_type = "telemetry" /\ model_type = "box"
        THEN [db |-> process_box_telemetry(d, model_id, payload, t),
              handlers |-> <<"_process_box_telemetry">>, raised |-> FALSE]
        ELSE [db |-> d, handlers |-> <<>>, raised |-> FALSE]

\* The messages delivered.
Topic(topic_type, model_type, model_id) ==
    <<"bio_supply", topic_type, model_type, model_id>>
Object(topic, body) == [topic |-> topic, kind |-> "object", body |-> body]
Bytes(topic, kind) == [topic |-> topic, kind |-> kind, body |-> <<>>]

BoxTelemetryBodies ==
    {[timestamp |-> 2, temperature |-> 30, humidity |-> 450],
     [timestamp |-> 1, temperature |-> 60, humidity |-> 500,
      geolocation |-> "48.85,2.35", status |-> "in_transit"],
     [temperature |-> 30, humidity |-> 450]}
BoxUpdateBodies ==
    {[geolocation |-> "depot", temperature |-> 50, humidity |-> 400,
      status |-> "idle"],
     [box_id |-> "BOX-2"],
     [status |-> "lost", colour |-> "red"]}
SampleUpdateBodies ==
    {[name |-> "Blood", collected_at |-> "2025-01-01 10:00:00",
      status |-> "collected"],
     [status |-> "stored"]}
SampleTelemetryBodies ==
    {[timestamp |-> 1, temperature |-> 30, humidity |-> 450,
      status |-> "stored"],
     [temperature |-> 30, humidity |-> 450]}

Messages ==
    {Object(Topic("telemetry", "box", "BOX-1"), b) : b \in BoxTelemetryBodies}
    \cup {Object(<<"bio_supply", "telemetry", "box", "BOX-1", "lid">>,
                 [timestamp |-> 2, temperature |-> 45, humidity |-> 470])}
    \cup {Object(Topic("updates", "box", "BOX-1"), b) : b \in BoxUpdateBodies}
    \cup {Object(Topic("updates", "box", "BOX-2"), [status |-> "idle"])}
    \cup {Object(Topic("updates", "sample", "SAMPLE-1"), b) :
              b \in SampleUpdateBodies}
    \cup {Object(Topic("telemetry", "sample", "SAMPLE-1"), b) :
              b \in SampleTelemetryBodies}
    \cup {Bytes(Topic("telemetry", "box", "BOX-1"), k) :
              k \in {"not_utf8", "not_json", "array"}}
    \cup {Bytes(Topic("updates", "box", "BOX-1"), "not_json"),
          Bytes(Topic("updates", "sample", "SAMPLE-1"), "array")}
    \cup {Object(t, [timestamp |-> 2, temperature |-> 30, humidity |-> 450]) :
              t \in {<<"bio_supply", "telemetry">>,
                     Topic("status", "box", "BOX-1"),
                     Topic("telemetry", "pallet", "BOX-1")}}

\* TransportBox.objects.create(...), as the REST API and the tests call it.
Creations ==
    {[box_id |-> "BOX-1", geolocation |-> "0,0", temperature |-> 10,
      humidity |-> 10, status |-> "active"],
     [box_id |-> "BOX-1", geolocation |-> "1,1", temperature |-> 20,
      humidity |-> 20, status |-> "active"],
     [box_id |-> "BOX-0001", geolocation |-> "0,0", temperature |-> 10,
      humidity |-> 10, status |-> "active"]}

InitCore ==
    /\ CallIdle
    /\ ParallelIdle
    /\ DetectorIdle
    /\ ApiIdle
    /\ CacheIdle
    /\ SimIdle
    /\ db = EmptyDb
    /\ now = 1
    /\ seed_log = NoSeed
    /\ delivery = NoDelivery
    /\ creation = NoCreation
    /\ journal = <<>>

\* paho calls _on_message; an exception that leaves it ends loop_forever
\* and the command (handle, lines 72-80).
on_message ==
    /\ ~delivery.raised
    /\ Len(journal) < MaxMessages
    /\ \E m \in Messages :
          LET out == OnMessage(db, m, now)
          IN  /\ db' = out.db
              /\ delivery' = [msg |-> m, before |-> db,
                              handlers |-> out.handlers,
                              raised |-> out.raised]
              /\ journal' = Append(journal, m)
    /\ creation' = NoCreation
    /\ UNCHANGED <<now, seed_log>>
    /\ UNCHANGED notStoreVars

CreateBox ==
    /\ Len(journal) < MaxMessages
    /\ \E c \in Creations :
          LET ins == InsertBox(db, c.box_id, c, now)
          IN  /\ db' = ins.db
              /\ creation' = [box_id |-> c.box_id, before |-> db,
                              error |-> IF ins.ok THEN ""
                                        ELSE "IntegrityError"]
              /\ journal' = Append(journal, [op |-> "create",
                                             box_id |-> c.box_id])
    /\ delivery' = [NoDelivery EXCEPT !.raised = delivery.raised]
    /\ UNCHANGED <<now, seed_log>>
    /\ UNCHANGED notStoreVars

\* The seed migration applied to the database the consumer writes.
MigrateSeed ==
    /\ Len(journal) < MaxMessages
    /\ db' = seed_data(db, now)
    /\ seed_log' = [seed_log EXCEPT !.applied = @ + 1, !.at = now]
    /\ journal' = Append(journal, [op |-> "seed"])
    /\ delivery' = [NoDelivery EXCEPT !.raised = delivery.raised]
    /\ creation' = NoCreation
    /\ UNCHANGED now
    /\ UNCHANGED notStoreVars

NextCore == on_message \/ CreateBox \/ MigrateSeed

SpecCore == InitCore /\ [][NextCore]_vars

(***************************************************************************)
(* The route simulator, scripts/simulate_route.py: main, the constructor   *)
(* of RouteSimulator, the paho network-loop thread that calls _on_connect, *)
(* and the waypoint loop of simulate_route.                                *)
(***************************************************************************)
MaxCities == 3
MaxWaypoints == 3
\* The return codes of a CONNACK: accepted, refused.
ConnackCodes == {0, 5}

InitSim ==
    /\ CallIdle
    /\ ParallelIdle
    /\ DetectorIdle
    /\ ApiIdle
    /\ CacheIdle
    /\ StoreIdle
    /\ sim_pc = "main"
    /\ sim_connected = FALSE
    /\ connack = NoConnack
    /\ built = "unbuilt"
    /\ route \in [n : 2..MaxCities, w : 1..MaxWaypoints]
    /\ progress = NoProgress
    /\ calls = <<>>

\* __init__, lines 70-75.
ConstructorStart ==
    /\ sim_pc = "main"
    /\ sim_pc' = "connecting"
    /\ sim_connected' = FALSE
    /\ UNCHANGED <<connack, built, route, progress, calls>>
    /\ UNCHANGED notSimVars

\* lines 80-82: connect and loop_start return; the constructor sleeps.
ConnectReturns ==
    /\ sim_pc = "connecting"
    /\ sim_pc' = "sleeping"
    /\ UNCHANGED <<sim_connected, connack, built, route, progress, calls>>
    /\ UNCHANGED notSimVars

\* lines 80, 85-87: connect raises (no broker at the address).
ConnectRaises ==
    /\ sim_pc = "connecting"
    /\ sim_pc' = "constructed"
    /\ sim_connected' = FALSE
    /\ built' = "disconnected"
    /\ UNCHANGED <<connack, route, progress, calls>>
    /\ UNCHANGED notSimVars

\* _on_connect, lines 89-95, called by the network-loop thread when the
\* broker's CONNACK arrives: while the constructor sleeps or later.
OnConnect ==
    /\ sim_pc \in {"sleeping", "constructed", "simulating"}
    /\ built # "disconnected"
    /\ ~connack.called
    /\ \E rc \in ConnackCodes :
          /\ connack' = [called |-> TRUE, rc |-> rc,
                         during |-> IF sim_pc = "sleeping" THEN "sleep"
                                    ELSE "later"]
          /\ sim_connected' = (rc = 0)
    /\ UNCHANGED <<sim_pc, built, route, progress, calls>>
    /\ UNCHANGED notSimVars

\* lines 82-84: the sleep ends.
SleepEnds ==
    /\ sim_pc = "sleeping"
    /\ sim_pc' = "constructed"
    /\ sim_connected' = TRUE
    /\ built' = "connected"
    /\ UNCHANGED <<connack, route, progress, calls>>
    /\ UNCHANGED notSimVars

\* main, lines 368-370.
MainExits ==
    /\ sim_pc = "constructed"
    /\ ~sim_connected
    /\ sim_pc' = "exited"
    /\ UNCHANGED <<sim_connected, connack, built, route, progress, calls>>
    /\ UNCHANGED notSimVars

\* main, line 373, and simulate_route up to its loop, lines 185-215.
MainSimulates ==
    /\ sim_pc = "constructed"
    /\ sim_connected
    /\ sim_pc' = "simulating"
    /\ progress' = [segment_idx |-> 0, wp_idx |-> 0, waypoint_count |-> 0,
                    total_waypoints |-> route.n * route.w]
    /\ UNCHANGED <<sim_connected, connack, built, route, calls>>
    /\ UNCHANGED notSimVars

\* lines 230-242.
StatusOf(waypoint_count, total_waypoints) ==
    IF waypoint_count = 1 THEN "active"
    ELSE IF waypoint_count = total_waypoints THEN "delivered"
    ELSE "in_transit"

\* send_telemetry, lines 101-132: whether client.publish is called and
\* what the method returns.  publish succeeds once the broker has accepted
\* the connection.
send_telemetry(status) ==
    IF ~sim_connected
    THEN [status |-> status, published |-> FALSE, result |-> FALSE]
    ELSE [status |-> status, published |-> TRUE,
          result |-> connack.called /\ connack.rc = 0]

\* One iteration of the loops of lines 218-263; interpolate_route (lines
\* 157-167) gives every segment waypoints_per_segment + 1 waypoints.
SendWaypoint ==
    /\ sim_pc = "simulating"
    /\ progress.segment_idx < route.n - 1
    /\ LET waypoint_count == progress.waypoint_count + 1
           status == StatusOf(waypoint_count, progress.total_waypoints)
           last_of_segment == progress.wp_idx = route.w
       IN  /\ calls' = Append(calls,
                  [waypoint_count |-> waypoint_count,
                   total_waypoints |-> progress.total_waypoints,
                   call |-> send_telemetry(status)])
           /\ progress' = [progress EXCEPT
                  !.waypoint_count = waypoint_count,
                  !.wp_idx = IF last_of_segment THEN 0 ELSE @ + 1,
                  !.segment_idx = IF last_of_segment THEN @ + 1 ELSE @]
    /\ UNCHANGED <<sim_pc, sim_connected, connack, built, route>>
    /\ UNCHANGED notSimVars

\* lines 265-269 and main's finally, line 375.
JourneyComplete ==
    /\ sim_pc = "simulating"
    /\ progress.segment_idx = route.n - 1
    /\ sim_pc' = "done"
    /\ UNCHANGED <<sim_connected, connack, built, route, progress, calls>>
    /\ UNCHANGED notSimVars

NextSim ==
    \/ ConstructorStart
    \/ ConnectReturns
    \/ ConnectRaises
    \/ OnConnect
    \/ SleepEnds
    \/ MainExits
    \/ MainSimulates
    \/ SendWaypoint
    \/ JourneyComplete

SpecSim == InitSim /\ [][NextSim]_vars

(***************************************************************************)
(* What the claims speak about, stated over the arguments of the call.     *)
(***************************************************************************)
Done == pc = "done"

Metrics == {"temperature", "humidity"}
BandMin(m) == IF m = "temperature" THEN sla.temp_min ELSE sla.humidity_min
BandMax(m) == IF m = "temperature" THEN sla.temp_max ELSE sla.humidity_max
ValidBand(m) == BandMin(m) <= BandMax(m)

Positions == 1..Len(telemetry_points)
Absent(i, m) == telemetry_points[i][m] = None
Within(i, m) ==
    /\ ~Absent(i, m)
    /\ BandMin(m) <= telemetry_points[i][m].v
    /\ telemetry_points[i][m].v <= BandMax(m)
Outside(i, m) ==
    /\ ~Absent(i, m)
    /\ \/ telemetry_points[i][m].v < BandMin(m)
       \/ telemetry_points[i][m].v > BandMax(m)
OnBound(i, m) ==
    /\ ~Absent(i, m)
    /\ \/ telemetry_points[i][m].v = BandMin(m)
       \/ telemetry_points[i][m].v = BandMax(m)

\* Every present metric of point i lies within its band.
Compliant(i) == \A m \in Metrics : Absent(i, m) \/ Within(i, m)
CompliantPoints == {i \in Positions : Compliant(i)}

\* The (point, metric) pairs that are present and out of band.
OutPairs == {pr \in Positions \X Metrics : Outside(pr[1], pr[2])}

\* The excursions returned for point i (timestamps of a series are distinct).
ExcursionsOf(i) ==
    {j \in 1..Len(result.excursions) :
        result.excursions[j].timestamp = telemetry_points[i].timestamp}
HasExcursion(i, m) ==
    \E j \in ExcursionsOf(i) : result.excursions[j].metric = m

\* pct (in hundredths) is a hundredth nearest to 100 * k / n.
Nearest(pct, k, n) ==
    LET d == pct * n - 10000 * k
    IN  2 * d <= n /\ -(2 * d) <= n

Malformed(i) ==
    \/ CompareRaises(telemetry_points[i].temperature)
    \/ CompareRaises(telemetry_points[i].humidity)

\* C1: for a non-empty series, num_points is the length of the series, a
\* point is counted as in range iff every metric present on it lies within
\* its band, and in_range_pct is 100 * count / num_points rounded to two
\* decimals.
C1_CountAndPercentage ==
    (Done /\ telemetry_points # <<>>) =>
        /\ result.num_points = Len(telemetry_points)
        /\ points_in_range = Cardinality(CompliantPoints)
        /\ Nearest(result.in_range_pct, Cardinality(CompliantPoints),
                   Len(telemetry_points))

C1_Witness ==
    /\ Done
    /\ Len(telemetry_points) = 2
    /\ Compliant(1) /\ Absent(1, "temperature") /\ Within(1, "humidity")
    /\ Within(2, "temperature") /\ Outside(2, "humidity")
    /\ result.in_range_pct = 5000

\* C2: the excursion list holds exactly one entry for each (point, metric)
\* pair whose value is present and outside [min, max], and no other entry;
\* a point yields 0, 1 or 2 excursions, and at least one iff it is not
\* counted as in range.
C2_ExcursionsExact ==
    Done =>
        /\ Len(result.excursions) = Cardinality(OutPairs)
        /\ \A i \in Positions : \A m \in Metrics :
              HasExcursion(i, m) <=> Outside(i, m)
        /\ \A i \in Positions : Cardinality(ExcursionsOf(i)) \in {0, 1, 2}
        /\ points_in_range =
              Cardinality({i \in Positions : ExcursionsOf(i) = {}})
        /\ \A i \in Positions : (ExcursionsOf(i) # {}) <=> ~Compliant(i)

C2_Witness ==
    /\ Done
    /\ Len(telemetry_points) = 2
    /\ Outside(1, "temperature") /\ Outside(1, "humidity")
    /\ Compliant(2)
    /\ Len(result.excursions) = 2
    /\ result.in_range_pct = 5000

\* C3: an absent metric never produces an excursion for that metric and
\* never by itself keeps its point out of the count; a series in which
\* every metric is absent or within its band has in_range_pct 100.0 and no
\* excursions.
C3_AbsentIsCompliant ==
    Done =>
        /\ \A i \in Positions : \A m \in Metrics :
              Absent(i, m) => ~HasExcursion(i, m)
        /\ \A i \in Positions :
              (\A m \in Metrics : Absent(i, m) \/ Within(i, m))
                  => ExcursionsOf(i) = {}
        /\ (telemetry_points # <<>> /\ CompliantPoints = Positions) =>
              /\ points_in_range = num_points
              /\ result.in_range_pct = 10000
              /\ result.excursions = <<>>

C3_Witness ==
    /\ Done
    /\ Len(telemetry_points) = 2
    /\ Absent(1, "temperature") /\ Within(1, "humidity")
    /\ Absent(2, "temperature") /\ Absent(2, "humidity")
    /\ ~(sla.temp_min <= sla.temp_max)
    /\ result.in_range_pct = 10000
    /\ result.excursions = <<>>

\* C4: band bounds are inclusive: under a band with min <= max a present
\* value equal to min or to max produces no excursion and does not
\* disqualify its point; every excursion's value is strictly below its
\* band's min or strictly above its band's max.
C4_InclusiveBounds ==
    Done =>
        /\ \A j \in 1..Len(result.excursions) :
              \/ result.excursions[j].value < result.excursions[j].band[1]
              \/ result.excursions[j].value > result.excursions[j].band[2]
        /\ \A i \in Positions : \A m \in Metrics :
              (ValidBand(m) /\ OnBound(i, m)) => ~HasExcursion(i, m)
        /\ ( /\ telemetry_points # <<>>
             /\ \A i \in Positions : \A m \in Metrics :
                   Absent(i, m) \/ (ValidBand(m) /\ OnBound(i, m)) )
           => result.in_range_pct = 10000

C4_Witness ==
    /\ Done
    /\ Len(telemetry_points) = 2
    /\ sla.temp_min < sla.temp_max
    /\ sla.humidity_min < sla.humidity_max
    /\ telemetry_points[1].temperature = Num(sla.temp_min)
    /\ telemetry_points[1].humidity = Num(sla.humidity_max)
    /\ telemetry_points[2].temperature = Num(sla.temp_max)
    /\ telemetry_points[2].humidity = Num(sla.humidity_min)
    /\ result.in_range_pct = 10000
    /\ result.excursions = <<>>

\* C5: on an empty series the result is num_points 0, in_range_pct 100.0
\* and no excursions, for any band.
C5_EmptySeries ==
    (Done /\ telemetry_points = <<>>) =>
        /\ result.num_points = 0
        /\ result.in_range_pct = 10000
        /\ result.excursions = <<>>

C5_Witness ==
    /\ Done
    /\ telemetry_points = <<>>
    /\ sla.temp_min > sla.temp_max
    /\ result.num_points = 0

\* Rounding half up: the hundredth nearest to 100 * k / n, a half going up.
HalfUp(k, n) == (2 * 10000 * k + n) \div (2 * n)
IsHalf(k, n) == 2 * ((10000 * k) % n) = n

\* C6 as stated: for k in range out of n >= 1 points, in_range_pct is
\* (k / n) * 100 rounded to two decimals, halves rounded up.
C6_RoundHalfUp ==
    Done => result.in_range_pct = HalfUp(points_in_range, num_points)

\* C6 as amended: in_range_pct is a hundredth nearest to (k / n) * 100; it is
\* the half-up rounding whenever (k / n) * 100 is not exactly halfway between
\* two hundredths, and one of the two neighbouring hundredths when it is.
C6_NearestHundredth ==
    Done =>
        /\ Nearest(result.in_range_pct, points_in_range, num_points)
        /\ ~IsHalf(points_in_range, num_points) =>
              result.in_range_pct = HalfUp(points_in_range, num_points)
        /\ IsHalf(points_in_range, num_points) =>
              result.in_range_pct \in
                  {HalfUp(points_in_range, num_points) - 1,
                   HalfUp(points_in_range, num_points)}

C6_Witness ==
    /\ Done
    /\ points_in_range = 1
    /\ num_points = 32
    /\ result.in_range_pct = 312

\* C7: the returned in_range_pct lies between 0 and 100.
C7_PercentageRange ==
    Done => (0 <= result.in_range_pct /\ result.in_range_pct <= 10000)

C7_Witness ==
    /\ Done
    /\ Len(telemetry_points) = 2
    /\ CompliantPoints = {}
    /\ result.in_range_pct = 0

\* The excursions of the series in input order, temperature before humidity.
ExpectedExcursions ==
    LET n == Len(telemetry_points)
        slots == [s \in 1..(2 * n) |->
                     <<(s + 1) \div 2,
                       IF s % 2 = 1 THEN "temperature" ELSE "humidity">>]
        IsOut(slot) == Outside(slot[1], slot[2])
        kept == SelectSeq(slots, IsOut)
    IN  [j \in 1..Len(kept) |->
            [timestamp |-> telemetry_points[kept[j][1]].timestamp,
             metric |-> kept[j][2],
             value |-> telemetry_points[kept[j][1]][kept[j][2]].v,
             band |-> <<BandMin(kept[j][2]), BandMax(kept[j][2])>>]]

\* C8: excursions come in the input order of their points, temperature
\* before humidity for one point, each with the timestamp and value of its
\* point and the band of its own metric.
C8_ExcursionOrder ==
    Done => result.excursions = ExpectedExcursions

C8_Witness ==
    /\ Done
    /\ Len(telemetry_points) = 2
    /\ telemetry_points[1].timestamp > telemetry_points[2].timestamp
    /\ Len(result.excursions) = 3
    /\ result.excursions[1].metric = "temperature"
    /\ result.excursions[2].metric = "humidity"
    /\ result.excursions[2].timestamp = telemetry_points[1].timestamp
    /\ result.excursions[3].timestamp = telemetry_points[2].timestamp

\* C9: with an invalid band (temp_min > temp_max or humidity_min >
\* humidity_max) the call raises a configuration error before any point is
\* processed and returns no compliance result.
C9_InvalidBandRejected ==
    (~ValidBand("temperature") \/ ~ValidBand("humidity")) =>
        /\ pc # "done"
        /\ idx <= 1
        /\ pc = "raised" => error = "ConfigurationError"

\* C10: a point with a malformed (non-numeric) metric value does not abort
\* the evaluation: no exception leaves the call.
C10_MalformedAbsorbed ==
    (\E i \in Positions : Malformed(i)) => (pc # "raised" /\ error = "")

\* A step of a running call leaves its two arguments as they are.
ArgumentsUntouched ==
    pc \in {"call", "loop"} =>
        (telemetry_points' = telemetry_points /\ sla' = sla)

\* C11: compute_compliance leaves the points and the SLA it is given
\* unchanged, and the result of a call depends only on its own arguments,
\* whatever the calls before it left behind.
C11_PureFunction ==
    /\ [](Done =>
            IF telemetry_points = <<>>
            THEN result = [num_points |-> 0, in_range_pct |-> 10000,
                           excursions |-> <<>>]
            ELSE /\ result.num_points = Len(telemetry_points)
                 /\ Nearest(result.in_range_pct, Cardinality(CompliantPoints),
                            Len(telemetry_points))
                 /\ result.excursions = ExpectedExcursions)
    /\ [][ArgumentsUntouched]_vars

\* A later call has returned while the locals of an earlier one were around.
C11_Witness ==
    /\ Done
    /\ telemetry_points = <<>>
    /\ excursions # <<>>
    /\ points_in_range > 0
    /\ result.excursions = <<>>

(***************************************************************************)
(* What a call returns when it runs alone, as a function of its arguments. *)
(***************************************************************************)
InBand(x, lo, hi) == x = None \/ (lo <= x.v /\ x.v <= hi)

AloneRaises(points) ==
    \E i \in 1..Len(points) :
        \/ CompareRaises(points[i].temperature)
        \/ CompareRaises(points[i].humidity)

AloneCount(points, band) ==
    Cardinality({i \in 1..Len(points) :
        /\ InBand(points[i].temperature, band.temp_min, band.temp_max)
        /\ InBand(points[i].humidity, band.humidity_min, band.humidity_max)})

AloneExcursions(points, band) ==
    LET slots == [s \in 1..(2 * Len(points)) |->
                     <<(s + 1) \div 2,
                       IF s % 2 = 1 THEN "temperature" ELSE "humidity">>]
        Lo(m) == IF m = "temperature" THEN band.temp_min ELSE band.humidity_min
        Hi(m) == IF m = "temperature" THEN band.temp_max ELSE band.humidity_max
        IsOut(slot) == ~InBand(points[slot[1]][slot[2]], Lo(slot[2]), Hi(slot[2]))
        kept == SelectSeq(slots, IsOut)
    IN  [j \in 1..Len(kept) |->
            [timestamp |-> points[kept[j][1]].timestamp,
             metric |-> kept[j][2],
             value |-> points[kept[j][1]][kept[j][2]].v,
             band |-> <<Lo(kept[j][2]), Hi(kept[j][2])>>]]

IsAloneResult(res, points, band) ==
    IF points = <<>>
    THEN res = [num_points |-> 0, in_range_pct |-> 10000, excursions |-> <<>>]
    ELSE /\ res.num_points = Len(points)
         /\ Nearest(res.in_range_pct, AloneCount(points, band), Len(points))
         /\ res.excursions = AloneExcursions(points, band)

\* C12: two calls whose loop steps interleave, over the same or different
\* objects, each end as they would alone: with the result their own
\* arguments determine, or with the TypeError their own points raise.
C12_InterleavingInvisible ==
    \A c \in DOMAIN frames :
        /\ frames[c].pc = "done" =>
              /\ ~AloneRaises(PointsOf(c))
              /\ IsAloneResult(frames[c].result, PointsOf(c), SlaOf(c))
        /\ frames[c].pc = "raised" => AloneRaises(PointsOf(c))

\* Both calls returned, on the same list with different SLAs, after their
\* loops ran in step; they return different percentages.
C12_Witness ==
    /\ frames # <<>>
    /\ frames[1].pc = "done" /\ frames[2].pc = "done"
    /\ frames[2].points_ref = 1 /\ frames[2].sla_ref = 2
    /\ Len(heap.points[1]) = 2
    /\ heap.sla[1] # heap.sla[2]
    /\ frames[1].result.in_range_pct = 5000
    /\ frames[2].result.in_range_pct = 0

(***************************************************************************)
(* Claims about the Anomaly Detector, under SpecDetect.                    *)
(***************************************************************************)
DetDone == det_pc = "done"

\* The usable readings of metric m that precede the instant ts.
ReadingsBefore(m, ts) ==
    {i \in DOMAIN det_points :
        IsNumber(det_points[i][m]) /\ det_points[i].timestamp < ts}

\* The trailing window of the instant ts: the latest w of those readings.
TrailingWindow(m, ts, w) ==
    {i \in ReadingsBefore(m, ts) :
        Cardinality({k \in ReadingsBefore(m, ts) :
            det_points[k].timestamp > det_points[i].timestamp}) < w}

WindowIsConstant(m, ts, w) ==
    \A i, k \in TrailingWindow(m, ts, w) :
        det_points[i][m] = det_points[k][m]

FlaggedAt(m, ts) ==
    \E k \in DOMAIN anomalies :
        anomalies[k].metric = m /\ anomalies[k].timestamp = ts

C14_ConstantWindowGuard ==
    DetDone =>
        \A m \in det_metrics : \A i \in DOMAIN det_points :
            (/\ IsNumber(det_points[i][m])
             /\ Cardinality(ReadingsBefore(m, det_points[i].timestamp))
                    >= config.window_size
             /\ WindowIsConstant(m, det_points[i].timestamp,
                                 config.window_size))
            => /\ config.algorithm = "z_score"
                    => ~FlaggedAt(m, det_points[i].timestamp)
               /\ (/\ config.algorithm \in {"z_score", "iqr"}
                   /\ \A k \in TrailingWindow(m, det_points[i].timestamp,
                                              config.window_size) :
                          det_points[k][m] = det_points[i][m])
                    => ~FlaggedAt(m, det_points[i].timestamp)

\* Z-Score, threshold 0.5, temperatures 0, 0, 2 given latest first: the
\* window of the last reading is constant and nothing is flagged.
C14_Witness ==
    /\ DetDone
    /\ config = [algorithm |-> "z_score", window_size |-> 2, threshold |-> 1]
    /\ det_metrics = {"temperature"}
    /\ Len(det_points) = 3
    /\ \A i \in 1..3 : det_points[i].timestamp = 4 - i
    /\ det_points[1].temperature = Num(2)
    /\ det_points[2].temperature = Num(0)
    /\ det_points[3].temperature = Num(0)
    /\ anomalies = <<>>

InvalidArgs ==
    \/ det_args.algorithm \notin {"z_score", "iqr", "moving_average"}
    \/ det_args.window_size < 2
    \/ det_args.threshold <= 0

\* C15: an invalid DetectionConfig is refused when it is constructed, with
\* a configuration error, and only then: no detection call fails because of
\* its configuration.
C15_ConfigFailsAtConstruction ==
    /\ det_pc # "raised"
    /\ det_error = "ConfigurationError" <=> det_pc = "rejected"
    /\ det_pc = "rejected" => (InvalidArgs /\ config = NoConfig)
    /\ (InvalidArgs /\ det_pc # "new") => det_pc = "rejected"

\* An algorithm that does not exist has been refused.
C15_Witness ==
    /\ det_pc = "rejected"
    /\ det_args.algorithm = "isolation_forest"
    /\ det_args.window_size >= 2
    /\ det_args.threshold > 0
    /\ det_error = "ConfigurationError"
    /\ det_points # <<>>

\* C16: the results are in timestamp order, and results of one timestamp
\* have temperature before humidity, whatever the order of the input.
C16_ResultOrder ==
    DetDone =>
        \A i, j \in DOMAIN anomalies :
            i < j =>
                \/ anomalies[i].timestamp < anomalies[j].timestamp
                \/ /\ anomalies[i].timestamp = anomalies[j].timestamp
                   /\ ~(anomalies[i].metric = "humidity"
                        /\ anomalies[j].metric = "temperature")

\* Input given latest first; humidity flagged at an earlier instant than
\* temperature, then both at the same instant.
C16_Witness ==
    /\ DetDone
    /\ Len(det_points) = 4
    /\ det_points[1].timestamp = 4
    /\ Len(anomalies) = 3
    /\ anomalies[1].metric = "humidity"
    /\ anomalies[2].metric = "temperature"
    /\ anomalies[3].metric = "humidity"
    /\ anomalies[1].timestamp = 3
    /\ anomalies[2].timestamp = 4
    /\ anomalies[3].timestamp = 4

\* C17: detection over no points returns an empty result and raises
\* nothing, for every valid configuration.
C17_EmptyInput ==
    (det_points = <<>> /\ ~InvalidArgs) =>
        /\ det_pc \in {"new", "ready", "done"}
        /\ det_error = ""
        /\ anomalies = <<>>
        /\ det_found = <<>>

\* An IQR detector has returned from a call with no points.
C17_Witness ==
    /\ DetDone
    /\ det_points = <<>>
    /\ config.algorithm = "iqr"
    /\ config.threshold = 6
    /\ anomalies = <<>>
    /\ det_error = ""

(***************************************************************************)
(* Claims about the HTTP service, under SpecCompliance.                    *)
(***************************************************************************)
ComplianceAnswered ==
    http_pc = "responded" /\ request.path = "GET /analytics/compliance"

RowsNamed(name) == {i \in 1..Len(sla_table) : sla_table[i].name = name}

AnswersWith(row) ==
    /\ response.status = 200
    /\ IsAloneResult(response.body, telemetry, BandOfRow(row))

\* C18, as stated: 400 with no SLA configured; 404 with sla_name given and
\* no SLA of that name; with sla_name given and matching, the evaluation of
\* the fetched telemetry against that SLA; with sla_name omitted, against
\* the most recently created SLA.
C18_SlaChoice ==
    ComplianceAnswered =>
        /\ sla_table = <<>> => response.status = 400
        /\ (sla_table # <<>> /\ request.sla_name # <<>>
               /\ RowsNamed(request.sla_name[1]) = {})
              => response.status = 404
        /\ (sla_table # <<>> /\ request.sla_name # <<>>)
              => \A i \in RowsNamed(request.sla_name[1]) :
                     AnswersWith(sla_table[i])
        /\ (sla_table # <<>> /\ request.sla_name = <<>>)
              => AnswersWith(sla_table[Len(sla_table)])

\* C18, as the code has it: 400 when list_sla returns no row (no SLA is
\* configured, or the query failed); otherwise 404 with a non-empty sla_name
\* that no SLA bears; otherwise the evaluation of the fetched telemetry
\* against the SLA of that name, or, with sla_name omitted or empty, against
\* the most recently created SLA.
C18_SlaChoiceAsListed ==
    ComplianceAnswered =>
        /\ slas \in {<<>>, Reverse(sla_table)}
        /\ sla_table = <<>> => response.status = 400
        /\ slas = <<>> => response.status = 400
        /\ (slas # <<>> /\ request.sla_name \notin {<<>>, <<"">>}
               /\ RowsNamed(request.sla_name[1]) = {})
              => response.status = 404
        /\ (slas # <<>> /\ request.sla_name \notin {<<>>, <<"">>})
              => \A i \in RowsNamed(request.sla_name[1]) :
                     AnswersWith(sla_table[i])
        /\ (slas # <<>> /\ request.sla_name \in {<<>>, <<"">>})
              => AnswersWith(sla_table[Len(sla_table)])

\* Two SLAs of different bands are configured, the request names none, and
\* the answer is the evaluation of two readings against the later one,
\* which differs from the evaluation against the earlier one.
C18_Witness ==
    /\ ComplianceAnswered
    /\ Len(sla_table) = 2
    /\ slas # <<>>
    /\ request.sla_name = <<>>
    /\ Len(telemetry) = 2
    /\ AnswersWith(sla_table[2])
    /\ ~AnswersWith(sla_table[1])

(***************************************************************************)
(* Claims about the stats cache, under SpecCache.                          *)
(***************************************************************************)
\* The last request was a GET /stats made less than the TTL after a GET
\* /stats that missed and stored its result, with no clear in between.
SecondGetWithinTtl ==
    /\ connected
    /\ stats_reply.path = "GET /stats"
    /\ observed.age_before >= 0
    /\ observed.age_before < StatsTtl
    /\ ~observed.cleared_before

\* C19: with Redis connected, a GET /stats made within the TTL of a GET
\* /stats that stored its result, with no clear in between, is a hit:
\* from_cache is true, the counts are those of the first answer, and the
\* database is not queried.
C19_SecondGetHits ==
    SecondGetWithinTtl =>
        /\ stats_reply.from_cache
        /\ stats_reply.counts = observed.reply_before.counts
        /\ ~observed.queried_db

FailureValue ==
    /\ op_result.op = "get" => ~op_result.value.present
    /\ op_result.op = "set" => ~op_result.ok
    /\ op_result.op = "delete" => ~op_result.ok
    /\ op_result.op = "clear_prefix" => op_result.count = 0

\* C21: a CacheManager built while Redis was unreachable answers None,
\* False, False, 0 and "disconnected" without raising and without calling
\* Redis; an operation whose Redis call fails later answers its miss or
\* failure value without raising; and GET /stats is then still answered
\* from the database.
C21_CacheDegradesQuietly ==
    /\ ~op_result.raised
    /\ (op_result.op # "" /\ ~op_result.was_connected)
          => /\ FailureValue
             /\ ~op_result.called
             /\ op_result.op = "get_cache_stats"
                   => op_result.status = "disconnected"
    /\ (op_result.op # "" /\ op_result.was_connected /\ ~op_result.was_up)
          => /\ FailureValue
             /\ op_result.op = "get_cache_stats"
                   => op_result.status = "error"
    /\ ~connected => \A k \in RedisKeys : ~redis[k].present
    /\ (stats_reply.path = "GET /stats" /\ ~(connected /\ observed.up_before))
          => /\ ~stats_reply.raised
             /\ ~stats_reply.from_cache
             /\ observed.queried_db
             /\ stats_reply.counts = observed.db_before

\* Redis answered at construction and a GET /stats stored an entry; Redis
\* then stopped answering, and the next GET /stats, after the database had
\* changed, was answered from the database while the entry was still there.
C21_Witness ==
    /\ connected
    /\ stats_reply.path = "GET /stats"
    /\ ~observed.up_before
    /\ observed.age_before = 0
    /\ redis[WrittenKey].present
    /\ stats_reply.counts # redis[WrittenKey].value
    /\ ~stats_reply.from_cache

(***************************************************************************)
(* Claims about the seed migration, under SpecSeed.                        *)
(***************************************************************************)
SeededBoxIds == {"BOX-0001", "BOX-0002"}
SeededSampleIds == {"SAMPLE-0001", "SAMPLE-0002"}

\* A database with the auto_now column of the seeded rows blanked.
WithoutSeedTimes(d) ==
    [d EXCEPT
        !.boxes = {IF r.box_id \in SeededBoxIds
                   THEN [r EXCEPT !.last_updated = 0] ELSE r : r \in @},
        !.samples = {IF r.sample_id \in SeededSampleIds
                     THEN [r EXCEPT !.last_updated = 0] ELSE r : r \in @}]

\* Exactly one row for each seeded id, holding the seeded values.
HoldsSeed(d) ==
    /\ \A i \in 1..2 :
          \E r \in d.boxes :
              /\ {x \in d.boxes : x.box_id = SeedBoxes[i].box_id} = {r}
              /\ r.geolocation = SeedBoxes[i].geolocation
              /\ r.temperature = SeedBoxes[i].temperature
              /\ r.humidity = SeedBoxes[i].humidity
              /\ r.status = SeedBoxes[i].status
    /\ \A i \in 1..2 :
          \E r \in d.samples :
              /\ {x \in d.samples : x.sample_id = SeedSamples[i].sample_id} = {r}
              /\ \E b \in d.boxes :
                    b.pk = r.box /\ b.box_id = SeedSamples[i].box_id
              /\ r.name = SeedSamples[i].name
              /\ r.description = SeedSamples[i].description
              /\ r.collected_at = SeedSamples[i].collected_at
              /\ r.status = SeedSamples[i].status
              /\ r.temperature = SeedSamples[i].temperature
              /\ r.humidity = SeedSamples[i].humidity

\* C22: after seed_data has been applied twice the database is as after one
\* application (made at the time of the second), with exactly one row for
\* each of the four seeded ids holding the seeded values, whatever was
\* there before; after unseed_data those four rows are gone.
C22_SeedIdempotent ==
    /\ (seed_log.applied >= 1 /\ ~seed_log.unseeded) => HoldsSeed(db)
    /\ (seed_log.applied >= 2 /\ ~seed_log.unseeded)
          => /\ db = seed_data(seed_log.before, seed_log.at)
             /\ WithoutSeedTimes(db) = WithoutSeedTimes(seed_log.first)
    /\ seed_log.unseeded
          => /\ \A r \in db.boxes : r.box_id \notin SeededBoxIds
             /\ \A r \in db.samples : r.sample_id \notin SeededSampleIds

\* BOX-0001 and SAMPLE-0001 were there with other values, SAMPLE-0001 in
\* another box; the migration has been applied twice, the second time
\* later than the first.
C22_Witness ==
    /\ seed_log.applied = 2
    /\ ~seed_log.unseeded
    /\ \E r \in seed_log.before.boxes :
          r.box_id = "BOX-0001" /\ r.status = "idle"
    /\ \E r \in seed_log.before.samples :
          r.sample_id = "SAMPLE-0001" /\ r.box = 2
    /\ db # seed_log.first
    /\ Cardinality(db.boxes) = 3
    /\ Cardinality(db.samples) = 2

(***************************************************************************)
(* Claims about the core database and the MQTT consumer, under SpecCore.   *)
(***************************************************************************)
Delivered == delivery.msg # NoMessage
DeliveredTo(handler) == Delivered /\ delivery.handlers = <<handler>>
DeliveredId == delivery.msg.topic[4]

Routed(m) ==
    /\ Len(m.topic) >= 4
    /\ m.topic[2] \in {"updates", "telemetry"}
    /\ m.topic[3] \in {"sample", "box"}
HandlerOf(m) ==
    IF m.topic[2] = "updates"
    THEN (IF m.topic[3] = "sample" THEN "_update_sample" ELSE "_update_box")
    ELSE (IF m.topic[3] = "sample" THEN "_process_sample_telemetry"
          ELSE "_process_box_telemetry")
ValidJson(m) == m.kind \in {"object", "array"}

\* C24: whatever the topic and the payload, _on_message returns without
\* raising and calls at most one handler, the one named by segments 2 and
\* 3 of the topic; a message with fewer than four segments, an unknown
\* topic type or model type, or a payload that is not valid JSON changes
\* no row.
C24_DispatchNeverRaises ==
    Delivered =>
        /\ ~delivery.raised
        /\ Len(delivery.handlers) <= 1
        /\ delivery.handlers # <<>>
              => /\ Routed(delivery.msg)
                 /\ delivery.handlers = <<HandlerOf(delivery.msg)>>
        /\ (~Routed(delivery.msg) \/ ~ValidJson(delivery.msg))
              => db = delivery.before

\* What a telemetry payload puts in a reading's timestamp, temperature
\* and humidity columns.
CarriesReading(row, p) ==
    /\ row.timestamp = p.timestamp
    /\ row.temperature = PayloadGet(p, "temperature", 0)
    /\ row.humidity = PayloadGet(p, "humidity", 0)

\* An earlier message on the updates topic of the sample delivered to.
CreatedThroughUpdates ==
    \E i \in 1..(Len(journal) - 1) :
        /\ journal[i] \in Messages
        /\ Routed(journal[i])
        /\ HandlerOf(journal[i]) = "_update_sample"
        /\ journal[i].topic[4] = DeliveredId

\* C25: a telemetry message for a sample id that has no row creates no
\* reading and no sample and changes no row; once an updates message has
\* created the sample, a telemetry message for it adds one reading, of that
\* sample and its box, and nothing else is added.
C25_SampleMustExist ==
    DeliveredTo("_process_sample_telemetry") =>
        /\ SamplesWithId(delivery.before, DeliveredId) = {}
              => db = delivery.before
        /\ db.readings # delivery.before.readings
              => /\ CreatedThroughUpdates
                 /\ \E s \in SamplesWithId(delivery.before, DeliveredId) :
                    \E r \in db.readings :
                       /\ db.readings = delivery.before.readings \cup {r}
                       /\ r \notin delivery.before.readings
                       /\ r.sample = s.pk
                       /\ r.box = s.box
                       /\ CarriesReading(r, delivery.msg.body)
        /\ (SamplesWithId(delivery.before, DeliveredId) # {}
              /\ delivery.msg.kind = "object" /\ HasStamp(delivery.msg.body))
              => Cardinality(db.readings)
                    = Cardinality(delivery.before.readings) + 1
        /\ db.boxes = delivery.before.boxes
        /\ {r.pk : r \in db.samples} = {r.pk : r \in delivery.before.samples}

\* Telemetry for SAMPLE-1 came first and was dropped; an updates message
\* created the sample; the telemetry sent again has been recorded.
C25_Witness ==
    /\ Len(journal) = 3
    /\ journal[1] = journal[3]
    /\ DeliveredTo("_process_sample_telemetry")
    /\ journal[2] \in Messages
    /\ journal[2].topic = Topic("updates", "sample", "SAMPLE-1")
    /\ Cardinality(db.readings) = 1
    /\ Cardinality(db.samples) = 1
    /\ \E s \in db.samples : s.sample_id = "SAMPLE-1" /\ s.status = "stored"

\* A box telemetry message for box_id that carries a timestamp, a
\* temperature and a humidity.
WellFormedFor(m, box_id) ==
    /\ m \in Messages
    /\ m.kind = "object"
    /\ Routed(m)
    /\ HandlerOf(m) = "_process_box_telemetry"
    /\ m.topic[4] = box_id
    /\ HasStamp(m.body)
    /\ {"temperature", "humidity"} \subseteq DOMAIN m.body

OnlyTelemetryFor(box_id) ==
    /\ journal # <<>>
    /\ \A i \in 1..Len(journal) : WellFormedFor(journal[i], box_id)

\* The value of field k in the last message of seq that carries it.
RECURSIVE LastCarried(_, _, _)
LastCarried(seq, k, default) ==
    IF seq = <<>> THEN default
    ELSE IF HasText(seq[Len(seq)].body, k) THEN seq[Len(seq)].body[k]
    ELSE LastCarried(SubSeq(seq, 1, Len(seq) - 1), k, default)

ReadingsOfBox(d, box) == {r \in d.readings : r.box = box.pk}

\* C26: when only well-formed telemetry messages for one box have been
\* processed, the box has as many readings as messages were processed and
\* holds the temperature and humidity of the message that arrived last,
\* with the geolocation and status of the last message that carried one;
\* and any such message for a box that exists adds one reading, sets
\* temperature and humidity, and changes geolocation or status only when
\* it carries one.
C26_LatestTelemetry ==
    /\ OnlyTelemetryFor("BOX-1")
          => \E box \in db.boxes :
                /\ BoxesWithId(db, "BOX-1") = {box}
                /\ Cardinality(ReadingsOfBox(db, box)) = Len(journal)
                /\ box.temperature = journal[Len(journal)].body.temperature
                /\ box.humidity = journal[Len(journal)].body.humidity
                /\ box.geolocation
                      = LastCarried(journal, "geolocation", "unknown")
                /\ box.status = LastCarried(journal, "status", "active")
    /\ (Delivered /\ WellFormedFor(delivery.msg, "BOX-1"))
          => \A old \in BoxesWithId(delivery.before, "BOX-1") :
             \E box \in db.boxes :
                /\ box.pk = old.pk
                /\ Cardinality(ReadingsOfBox(db, box))
                      = Cardinality(ReadingsOfBox(delivery.before, old)) + 1
                /\ box.temperature = delivery.msg.body.temperature
                /\ box.humidity = delivery.msg.body.humidity
                /\ box.geolocation # old.geolocation
                      => HasText(delivery.msg.body, "geolocation")
                /\ box.status # old.status
                      => HasText(delivery.msg.body, "status")

\* Three messages for BOX-1; the second is stamped earlier than the first
\* and carries a geolocation, the third carries none.
C26_Witness ==
    /\ Len(journal) = 3
    /\ OnlyTelemetryFor("BOX-1")
    /\ journal[2].body.timestamp < journal[1].body.timestamp
    /\ ~HasText(journal[3].body, "geolocation")
    /\ \E box \in db.boxes :
          /\ box.geolocation = "48.85,2.35"
          /\ box.temperature = journal[3].body.temperature
          /\ box.temperature # journal[2].body.temperature
          /\ Cardinality(ReadingsOfBox(db, box)) = 3

\* C28: a box telemetry message either creates a reading and leaves the
\* box row reflecting the message, or, when its processing fails, creates
\* and changes no row at all, a new box row included.
C28_TelemetryAllOrNothing ==
    DeliveredTo("_process_box_telemetry") =>
        \/ db = delivery.before
        \/ \E box \in BoxesWithId(db, DeliveredId) :
           \E r \in db.readings :
              /\ db.readings = delivery.before.readings \cup {r}
              /\ r \notin delivery.before.readings
              /\ r.box = box.pk
              /\ box.temperature = PayloadGet(delivery.msg.body,
                                              "temperature", box.temperature)
              /\ box.humidity = PayloadGet(delivery.msg.body,
                                           "humidity", box.humidity)

(***************************************************************************)
(* Claims about the route simulator, under SpecSim.                        *)
(***************************************************************************)
AllSent == \A i \in 1..Len(calls) : calls[i].call.result

\* C27: the waypoint count reported never exceeds the announced total,
\* and in a journey whose messages were all sent the first has status
\* active, the last has status delivered and every one in between has
\* status in_transit.
C27_StatusFollowsPhase ==
    /\ \A i \in 1..Len(calls) :
          calls[i].waypoint_count <= calls[i].total_waypoints
    /\ (sim_pc = "done" /\ AllSent)
          => /\ Len(calls) >= 2
             /\ calls[1].call.status = "active"
             /\ calls[Len(calls)].call.status = "delivered"
             /\ \A i \in 2..(Len(calls) - 1) :
                   calls[i].call.status = "in_transit"

\* The constructor has returned.
Constructed == sim_pc \notin {"main", "connecting", "sleeping"}
RefusedWhileWaiting ==
    connack.called /\ connack.during = "sleep" /\ connack.rc # 0

\* C29: the constructor leaves connected true only if _on_connect was
\* called with rc = 0 while it waited; when _on_connect was called with
\* another rc while it waited, connected is false after construction, no
\* send_telemetry call publishes or returns True, and main exits without
\* simulating.
C29_ConnectedOnlyIfAccepted ==
    /\ built = "connected"
          => connack.called /\ connack.rc = 0
    /\ (Constructed /\ RefusedWhileWaiting)
          => /\ built = "disconnected"
             /\ ~sim_connected
             /\ sim_pc \in {"constructed", "exited"}
             /\ \A i \in 1..Len(calls) :
                   ~calls[i].call.published /\ ~calls[i].call.result

====
